---- MODULE Spec2Model ----
(***************************************************************************)
(* A model of CovResu (src/app.py, src/linkedin_oauth_backend.py): the     *)
(* non-destructive merge, the model query client, the structured-response *)
(* extractor and the two profile normalizers.                              *)
(*                                                                         *)
(* Python values are tagged records: the type is the Python type's name,   *)
(* so that a str, None and a float NaN can sit in the same dictionary slot *)
(* and be told apart.                                                      *)
(***************************************************************************)
EXTENDS Integers, Sequences, FiniteSets, TLC

VARIABLES
    mpc,        \* merge_parsed_into_user: "call" before the call, "done" after
    parsed,     \* merge_parsed_into_user: the dict `parsed`
    ud,         \* merge_parsed_into_user: the dict `ud` (st.session_state.user_data)
    args,       \* the two dicts as they were when the call was made
    tpc,            \* tailor_resume_experience: "call", "queried", "done" or "raised"
    experience_list,\* tailor_resume_experience: the caller's list
    reply,          \* what the Ollama endpoint does with the one POST
    model_output,   \* the text the model wrote, and how it was put together
    response_text,  \* tailor_resume_experience: what query_ollama returned
    tailored,       \* tailor_resume_experience: the value returned
    st_messages,    \* what st.error / st.warning / st.code have shown
    fpc,            \* fetch_public_linkedin: "call", "validated", "fetched" or "done"
    linkedin_url,   \* fetch_public_linkedin: the URL given
    page,           \* what the server does with a GET of that URL
    http_gets,      \* the number of GET requests issued
    fetched,        \* fetch_public_linkedin: the dict returned
    epc,            \* parse_linkedin_export: the line reached, "done" or "raised"
    uploaded_file,  \* parse_linkedin_export: the file given
    exported,       \* parse_linkedin_export: the dict built, and returned
    caught,         \* str(e) of the exception the except clause caught, if any
    warning,        \* what st.warning has shown
    current_step,   \* st.session_state.current_step
    user_data,      \* st.session_state.user_data, the Record
    cl,             \* st.session_state.cl, the cover letter, if there is one
    import_option,  \* the import method chosen on the radio of step 1
    uploaded,       \* the file the uploader of step 1 holds
    script,         \* "waiting" for the user, or "rerun" when the script asked to run again
    invoked,        \* operations invoked since the last action of the user
    events,         \* actions of the user that changed or generated something
    pdf,            \* what the last create_resume_pdf returned, while its button shows
    shown,          \* the st.success / st.error message of the last run
    outcome         \* what the handler of the last run came to, if it generated or cleared

mergeVars == <<mpc, parsed, ud, args>>
tailorVars == <<tpc, experience_list, reply, model_output, response_text, tailored, st_messages>>
fetchVars == <<fpc, linkedin_url, page, http_gets, fetched>>
exportVars == <<epc, uploaded_file, exported, caught, warning>>
sessionVars == <<current_step, user_data, cl, import_option, uploaded, script, invoked, events, pdf,
                 shown, outcome>>
vars == <<mergeVars, tailorVars, fetchVars, exportVars, sessionVars>>

(***************************************************************************)
(* Bounds of the model.                                                    *)
(***************************************************************************)
MaxList == 2            \* longest list held by a list field
MaxFilled == 3          \* fields filled in, counted over the record and the parsed profile
MaxText == 4            \* tokens of a model output drawn freely
MaxProse == 2           \* tokens of prose before and after a JSON array in a model output
MaxObjs == 2            \* objects in a JSON array the model writes
MaxMembers == 2         \* members of an uploaded archive
MaxRows == 2            \* rows of a table of positions or of education
MaxEvents == 4          \* actions of the user that change or generate something, in a session
MaxInvocations == 3     \* runs of the upload block the model follows after one upload

(***************************************************************************)
(* Python values.                                                          *)
(***************************************************************************)
\* a str is the concatenation of a sequence of tokens (see Text below);
\* Str(s) is the str written s, a single token unless it is empty
Text(toks) == [type |-> "str", toks |-> toks]
Str(s) == Text(IF s = "" THEN <<>> ELSE <<s>>)
None == [type |-> "NoneType", val |-> "None"]
NaN == [type |-> "float", val |-> "nan"]

\* bool(x) for the scalar values the dictionaries hold
Truthy(x) ==
    CASE x.type = "str" -> Len(x.toks) > 0
      [] x.type = "NoneType" -> FALSE
      [] x.type = "int64" -> x.val # "0"
      [] x.type = "list" -> Len(x.items) > 0
      [] x.type = "dict" -> IF "fields" \in DOMAIN x THEN DOMAIN x.fields # {} ELSE TRUE
      [] OTHER -> TRUE

\* bool(l) for a list
TruthyList(l) == Len(l) > 0

Range(f) == {f[i] : i \in DOMAIN f}

Prefixes(pool) == {SubSeq(pool, 1, k) : k \in 0..MaxList}

(***************************************************************************)
(* The Record (user_data) and the ParsedProfile.                            *)
(***************************************************************************)
ScalarFields == {"name", "email", "phone", "current_role", "summary"}
MergedListFields == {"skills", "experience", "education"}

Exp(t, c, d, x) == [title |-> Str(t), company |-> Str(c), duration |-> Str(d), description |-> Str(x)]
Edu(d, i, y) == [degree |-> Str(d), institution |-> Str(i), year |-> Str(y)]
Proj(t, k, x) == [title |-> Str(t), tech |-> Str(k), description |-> Str(x)]

\* what the user typed into the wizard
UserSkills == <<Str("Python"), Str("SQL"), Str("Go")>>
UserExperience == << Exp("Engineer", "Acme", "2019 - 2021", "Built things"),
                     Exp("Intern", "Initech", "2018", ""),
                     Exp("Lead", "Globex", "2021 - ", "Led a team") >>
UserEducation == << Edu("BSc", "State University", "2018"),
                    Edu("MSc", "Tech Institute", "2020"),
                    Edu("PhD", "Tech Institute", "2024") >>
UserProjects == << Proj("Compiler", "C", "A toy compiler"),
                   Proj("Site", "JS", ""),
                   Proj("Bot", "Python", "A chat bot") >>
UserTailored == << Exp("Engineer", "Acme", "2019 - 2021", "Tailored bullets"),
                   Exp("Intern", "Initech", "2018", "Tailored"),
                   Exp("Lead", "Globex", "2021 - ", "Tailored lead") >>

\* what an import recovered
ParsedSkills == <<Str("Leadership"), Str("Python"), Str("Rust")>>
ParsedExperience == << Exp("Manager", "Hooli", "2020 - 2022", "Managed"),
                       Exp("Engineer", "Acme", "2019 - 2021", "Built things"),
                       Exp("Analyst", "Umbrella", "", "") >>
ParsedEducation == << Edu("MBA", "Business School", "2022"),
                      Edu("BSc", "State University", "2018"),
                      Edu("", "Night School", "") >>
ParsedProjects == << Proj("Imported", "Go", "From the profile"),
                     Proj("Other", "", ""),
                     Proj("Third", "", "") >>

\* src/app.py:443-447
EmptyUserData ==
    [name |-> Str(""), email |-> Str(""), phone |-> Str(""), current_role |-> Str(""),
     summary |-> Str(""), skills |-> <<>>, experience |-> <<>>, projects |-> <<>>,
     education |-> <<>>, job_description |-> Str(""), tailored_experience |-> <<>>]

\* src/app.py:209-219
EmptyParsed ==
    [name |-> Str(""), email |-> Str(""), phone |-> Str(""), current_role |-> Str(""),
     summary |-> Str(""), skills |-> <<>>, experience |-> <<>>, projects |-> <<>>,
     education |-> <<>>]

\* the values a field takes once it is filled in
UserScalar(f) == {Str("user " \o f), None}
ParsedScalar(f) == {Str("parsed " \o f), NaN}
NonEmptyPrefixes(pool) == Prefixes(pool) \ {<<>>}

UserFields == DOMAIN EmptyUserData
ParsedFields == DOMAIN EmptyParsed

\* the records in which exactly the fields S are filled in
UserDatas(S) ==
    LET V(f, filled) == IF f \in S THEN filled ELSE {EmptyUserData[f]}
    IN  [name : V("name", UserScalar("name")), email : V("email", UserScalar("email")),
         phone : V("phone", UserScalar("phone")),
         current_role : V("current_role", UserScalar("current_role")),
         summary : V("summary", UserScalar("summary")),
         skills : V("skills", NonEmptyPrefixes(UserSkills)),
         experience : V("experience", NonEmptyPrefixes(UserExperience)),
         projects : V("projects", NonEmptyPrefixes(UserProjects)),
         education : V("education", NonEmptyPrefixes(UserEducation)),
         job_description : V("job_description", {Str("a job")}),
         tailored_experience : V("tailored_experience", NonEmptyPrefixes(UserTailored))]

\* the parsed profiles in which exactly the fields S were recovered
ParsedProfiles(S) ==
    LET V(f, filled) == IF f \in S THEN filled ELSE {EmptyParsed[f]}
    IN  [name : V("name", ParsedScalar("name")), email : V("email", ParsedScalar("email")),
         phone : V("phone", ParsedScalar("phone")),
         current_role : V("current_role", ParsedScalar("current_role")),
         summary : V("summary", ParsedScalar("summary")),
         skills : V("skills", NonEmptyPrefixes(ParsedSkills)),
         experience : V("experience", NonEmptyPrefixes(ParsedExperience)),
         projects : V("projects", NonEmptyPrefixes(ParsedProjects)),
         education : V("education", NonEmptyPrefixes(ParsedEducation))]

FieldChoices ==
    {c \in (SUBSET UserFields) \X (SUBSET ParsedFields) :
        Cardinality(c[1]) + Cardinality(c[2]) <= MaxFilled}

(***************************************************************************)
(* merge_parsed_into_user, src/app.py:409-429.                             *)
(***************************************************************************)
\* (mutant) the guard forgets `and not ud.get(f)`
MergeScalarOverwrite(p, u) == IF Truthy(p) THEN p ELSE u

\* one `if parsed.get(f) and not ud.get(f): ud[f] = parsed[f]` on a scalar
MergeScalar(p, u) == IF Truthy(p) /\ ~Truthy(u) THEN p ELSE u

\* (mutant) the parsed list is appended to the list the record holds
MergeListAppend(p, u) == IF TruthyList(p) THEN u \o p ELSE u

\* the same statement on a list field; for experience and education the code
\* adds `or len(ud.get(f)) == 0`, which `not ud.get(f)` already covers
MergeList(p, u) == IF TruthyList(p) /\ (~TruthyList(u) \/ Len(u) = 0) THEN p ELSE u

\* (mutant) projects are merged like the other list fields
MergeWithProjects(p, u) ==
    [u EXCEPT !.name = MergeScalar(p.name, @),
              !.email = MergeScalar(p.email, @),
              !.phone = MergeScalar(p.phone, @),
              !.current_role = MergeScalar(p.current_role, @),
              !.summary = MergeScalar(p.summary, @),
              !.skills = MergeList(p.skills, @),
              !.experience = MergeList(p.experience, @),
              !.projects = MergeList(p.projects, @),
              !.education = MergeList(p.education, @)]

merge_parsed_into_user(p, u) ==
    [u EXCEPT !.name = MergeScalar(p.name, @),
              !.email = MergeScalar(p.email, @),
              !.phone = MergeScalar(p.phone, @),
              !.current_role = MergeScalar(p.current_role, @),
              !.summary = MergeScalar(p.summary, @),
              !.skills = MergeList(p.skills, @),
              !.experience = MergeList(p.experience, @),
              !.education = MergeList(p.education, @)]

(***************************************************************************)
(* Text.  A str the model or the program writes is a sequence of tokens,   *)
(* and the str is their concatenation.  The tokens are the pieces the code *)
(* tells apart: the two brackets, the comma, white space, a code fence, a  *)
(* language tag, a digit, the JSON text of one object, and prose.  The     *)
(* token "'''" is the code fence, three backquotes, which a TLA+ string    *)
(* cannot hold.                                                            *)
(***************************************************************************)
Ws == {" ", "\n"}
ObjectTexts == {"{A}", "{B}"}        \* the JSON texts of two objects the model writes
EntryTexts == {"{E1}", "{E2}"}       \* the JSON texts of the user's experience entries

\* decoded JSON values
PyList(items) == [type |-> "list", items |-> items]
PyDict(text) == [type |-> "dict", val |-> text]
PyInt(n) == [type |-> "int", digits |-> n]
JSONDecodeError == [type |-> "JSONDecodeError", val |-> "Expecting value"]

Min(S) == CHOOSE x \in S : \A y \in S : x <= y
Max(S) == CHOOSE x \in S : \A y \in S : x >= y

SeqsUpTo(S, n) == UNION {[1..k -> S] : k \in 0..n}

(***************************************************************************)
(* json.loads on a token sequence: white space, then one value (a number,  *)
(* an object or an array of values), then white space and nothing else.    *)
(***************************************************************************)
SkipWs(t, i) ==
    LET S == {j \in i..Len(t) : t[j] \notin Ws}
    IN  IF S = {} THEN Len(t) + 1 ELSE Min(S)

NumEnd(t, i) ==
    LET S == {j \in i..Len(t) : t[j] # "1"}
    IN  IF S = {} THEN Len(t) + 1 ELSE Min(S)

ParseFail == [ok |-> FALSE, next |-> 0, val |-> JSONDecodeError]
Parsed(n, v) == [ok |-> TRUE, next |-> n, val |-> v]

RECURSIVE ParseValue(_, _), ParseItems(_, _, _)
ParseValue(t, i) ==
    IF i > Len(t) THEN ParseFail
    ELSE IF t[i] = "1" THEN Parsed(NumEnd(t, i), PyInt(NumEnd(t, i) - i))
    ELSE IF t[i] \in ObjectTexts \cup EntryTexts THEN Parsed(i + 1, PyDict(t[i]))
    ELSE IF t[i] = "["
        THEN LET j == SkipWs(t, i + 1)
             IN  IF j <= Len(t) /\ t[j] = "]"
                   THEN Parsed(j + 1, PyList(<<>>))
                   ELSE ParseItems(t, j, <<>>)
    ELSE ParseFail

ParseItems(t, i, acc) ==
    LET v == ParseValue(t, i)
    IN  IF ~v.ok THEN ParseFail
        ELSE LET j == SkipWs(t, v.next)
             IN  IF j > Len(t) THEN ParseFail
                 ELSE IF t[j] = "]" THEN Parsed(j + 1, PyList(Append(acc, v.val)))
                 ELSE IF t[j] = "," THEN ParseItems(t, SkipWs(t, j + 1), Append(acc, v.val))
                 ELSE ParseFail

json_loads(t) ==
    LET v == ParseValue(t, SkipWs(t, 1))
    IN  IF v.ok /\ SkipWs(t, v.next) > Len(t) THEN v.val ELSE JSONDecodeError

\* json.dumps of a list of objects: "[" + ", ".join(objects) + "]"
RECURSIVE JoinObjects(_)
JoinObjects(objs) ==
    IF Len(objs) = 0 THEN <<>>
    ELSE IF Len(objs) = 1 THEN <<objs[1].val>>
    ELSE <<objs[1].val, ",", " ">> \o JoinObjects(Tail(objs))

json_dumps(list) == <<"[">> \o JoinObjects(list.items) \o <<"]">>

(***************************************************************************)
(* query_ollama, src/app.py:27-46.                                         *)
(***************************************************************************)
CouldNotConnect == Text(<<"Error: ", "Could not connect to Ollama. Make sure Ollama is running.">>)

\* f"Error: {str(e)}"
ErrorText(e) == Text(<<"Error: ", e>>)

\* str(e) of the exceptions the try block can raise besides ConnectionError
ExceptionText(r) ==
    CASE r.kind = "ReadTimeout" -> "Read timed out. (read timeout=60)"
      [] r.kind = "status" -> r.code \o " Server Error"
      [] r.kind = "ok" /\ r.body = "not_json" -> "Expecting value: line 1 column 1 (char 0)"
      [] r.kind = "ok" /\ r.body = "json_list" -> "'list' object has no attribute 'get'"

\* the value query_ollama returns when the endpoint behaves as r and the
\* model, if it answers, writes the tokens out
query_ollama(r, out) ==
    CASE r.kind = "ConnectionError" -> CouldNotConnect
      [] r.kind = "ok" /\ r.body = "response" -> Text(out)
      [] r.kind = "ok" /\ r.body = "no_response" -> Text(<<>>)
      [] r.kind = "ok" /\ r.body = "null_response" -> None
      [] OTHER -> ErrorText(ExceptionText(r))

Replies ==
    {[kind |-> "ConnectionError", code |-> "", body |-> ""],
     [kind |-> "ReadTimeout", code |-> "", body |-> ""],
     [kind |-> "status", code |-> "500", body |-> ""],
     [kind |-> "status", code |-> "404", body |-> ""],
     [kind |-> "ok", code |-> "200", body |-> "not_json"],
     [kind |-> "ok", code |-> "200", body |-> "json_list"],
     [kind |-> "ok", code |-> "200", body |-> "no_response"],
     [kind |-> "ok", code |-> "200", body |-> "null_response"]}

Answer == [kind |-> "ok", code |-> "200", body |-> "response"]

(***************************************************************************)
(* The extraction step of tailor_resume_experience, src/app.py:93-105.     *)
(***************************************************************************)
Opens(t) == {i \in 1..Len(t) : t[i] = "["}
Closes(t) == {i \in 1..Len(t) : t[i] = "]"}

\* re.search(r'\[.*\]', text, re.DOTALL): from the first "[" to the last "]"
HasMatch(t) == Opens(t) # {} /\ Closes(t) # {} /\ Min(Opens(t)) < Max(Closes(t))
MatchGroup(t) == SubSeq(t, Min(Opens(t)), Max(Closes(t)))

\* .replace('```json', '')
RECURSIVE ReplaceFenceJson(_)
ReplaceFenceJson(t) ==
    IF Len(t) = 0 THEN <<>>
    ELSE IF Len(t) >= 2 /\ t[1] = "'''" /\ t[2] = "json"
        THEN ReplaceFenceJson(SubSeq(t, 3, Len(t)))
    ELSE <<t[1]>> \o ReplaceFenceJson(Tail(t))

\* .replace('```', '')
NotFence(tok) == tok # "'''"
ReplaceFence(t) == SelectSeq(t, NotFence)

\* .strip()
Strip(t) ==
    LET S == {j \in 1..Len(t) : t[j] \notin Ws}
    IN  IF S = {} THEN <<>> ELSE SubSeq(t, Min(S), Max(S))

CleanText(t) == Strip(ReplaceFence(ReplaceFenceJson(t)))

\* (mutant) only the fence-stripping strategy, without the bracket search
JsonStrFenceOnly(t) == CleanText(t)

\* what json.loads is given
JsonStr(t) == IF HasMatch(t) THEN MatchGroup(t) ELSE CleanText(t)

\* (mutant) the except branch returns an empty list
ExtractOrEmpty(t, original) ==
    IF json_loads(JsonStr(t)) = JSONDecodeError THEN PyList(<<>>) ELSE json_loads(JsonStr(t))

\* the value lines 93-105 return for the text t and the caller's list
Extract(t, original) ==
    IF json_loads(JsonStr(t)) = JSONDecodeError THEN original ELSE json_loads(JsonStr(t))

\* st.error, st.warning and st.code of the except branch
ExtractMessages(t) ==
    IF json_loads(JsonStr(t)) = JSONDecodeError
      THEN << <<"error", "AI Error: The model returned invalid JSON.">>,
              <<"warning", "Raw Model Output (for debugging):">>,
              <<"code", t>> >>
      ELSE <<>>

(***************************************************************************)
(* The model outputs looked at.                                            *)
(***************************************************************************)
RawTokens == {"[", "]", "{A}", "1", "'''", "json", "x", " "}
ProseTokens == {"x", "[", "]"}

ObjectLists == {PyList(l) : l \in SeqsUpTo({PyDict(o) : o \in ObjectTexts}, MaxObjs)}
ExperienceLists == {PyList(<<>>), PyList(<<PyDict("{E1}")>>), PyList(<<PyDict("{E1}"), PyDict("{E2}")>>)}

Fenced(t) == <<"'''", "json", "\n">> \o t \o <<"\n", "'''">>

\* the array L in its textual form, fenced or not, between two pieces of prose
Wrap(pre, fenced, L, post) ==
    pre \o (IF fenced THEN Fenced(json_dumps(L)) ELSE json_dumps(L)) \o post

RawOutputs ==
    {[form |-> "raw", pre |-> <<>>, fenced |-> FALSE, list |-> PyList(<<>>), post |-> <<>>,
      text |-> t] : t \in SeqsUpTo(RawTokens, MaxText)}

WrappedOutputs ==
    {[form |-> "wrapped", pre |-> pre, fenced |-> f, list |-> L, post |-> post,
      text |-> Wrap(pre, f, L, post)] :
        pre \in SeqsUpTo(ProseTokens, MaxProse), f \in BOOLEAN, L \in ObjectLists,
        post \in SeqsUpTo(ProseTokens, MaxProse)}

NoOutput ==
    [form |-> "none", pre |-> <<>>, fenced |-> FALSE, list |-> PyList(<<>>), post |-> <<>>,
     text |-> <<>>]

(***************************************************************************)
(* fetch_public_linkedin, src/app.py:322-407.                              *)
(*                                                                         *)
(* A page is what the one GET meets: an exception of requests, or a        *)
(* response with a status code and markup.  The markup is given by what    *)
(* each CSS selector the code uses matches in it: a sequence of elements,  *)
(* each with its text and the texts of the sub-elements its own            *)
(* sub-selectors match.                                                    *)
(***************************************************************************)
\* src/app.py:328-337 (no 'projects' key here)
EmptyFetched ==
    [name |-> Str(""), email |-> Str(""), phone |-> Str(""), current_role |-> Str(""),
     summary |-> Str(""), skills |-> <<>>, experience |-> <<>>, education |-> <<>>]

\* {'_error': str(e), **parsed}
WithError(p, msg) == ("_error" :> Text(msg)) @@ p
HasError(r) == "_error" \in DOMAIN r

WellFormedUrls == {"https://www.linkedin.com/in/alice", "http://example.org/profile"}
MalformedUrls == {"linkedin.com/in/alice", "not a url", ""}

\* (mutant) the URL is not checked
validators_url_any(u) == TRUE

\* validators.url(linkedin_url), as a truth value
validators_url(u) == u \in WellFormedUrls

Element(t, s) == [text |-> t, sub |-> s]
Tag(t) == Element(t, <<>>)

NameSelectors == <<"h1", ".text-heading-xlarge", ".top-card-layout__title">>
HeadlineSelectors == <<"div.text-body-medium", ".text-body-medium", ".top-card-layout__headline">>
AboutSelectors == <<"#about", ".pv-shared-text-with-see-more", "section#about">>
SkillSelectors == <<".skill-pill", ".pv-skill-category-entity__name-text", ".skill-name">>
ExperienceSelectors == <<"section#experience-section li", ".experience__list-item", ".pv-position-entity">>
EducationSelectors == <<"section#education-section li", ".education__list-item", ".pv-entity__school-summary-info">>

SkillBlockCap == 20
EntryCap == 10

\* soup.select(sel)
Select(dom, sel) == IF sel \in DOMAIN dom THEN dom[sel] ELSE <<>>

\* soup.select_one(a) or soup.select_one(b) or soup.select_one(c): the first
\* element of the first selector that matches anything, or no element
SelectOneOf(dom, sels) ==
    LET hits == {i \in 1..Len(sels) : Len(Select(dom, sels[i])) > 0}
    IN  IF hits = {} THEN <<>> ELSE <<Select(dom, sels[Min(hits)])[1]>>

\* soup.select(a) or soup.select(b) or soup.select(c)
SelectAnyOf(dom, sels) ==
    LET hits == {i \in 1..Len(sels) : Len(Select(dom, sels[i])) > 0}
    IN  IF hits = {} THEN <<>> ELSE Select(dom, sels[Min(hits)])

\* l[:n]
Take(l, n) == SubSeq(l, 1, IF Len(l) < n THEN Len(l) ELSE n)

\* tag.get_text(strip=True) and tag.get_text(separator=' ', strip=True)
GetText(el) == Text(Strip(el.text))

\* (ex.select_one(a) or ex.select_one(b) or ...).get_text(strip=True) if
\* one of them matches, else ''
SubText(el, sels) ==
    LET hits == {i \in 1..Len(sels) : sels[i] \in DOMAIN el.sub}
    IN  IF hits = {} THEN Str("") ELSE Text(Strip(el.sub[sels[Min(hits)]]))

\* lines 366-372: the texts of the first 20 skill blocks, empty ones left out
RECURSIVE SkillTexts(_)
SkillTexts(blocks) ==
    IF Len(blocks) = 0 THEN <<>>
    ELSE (IF Truthy(GetText(blocks[1])) THEN <<GetText(blocks[1])>> ELSE <<>>)
            \o SkillTexts(Tail(blocks))

\* lines 377-386
ExperienceOf(ex) ==
    [title |-> SubText(ex, <<"h3", ".t-16", ".pv-entity__summary-info h3">>),
     company |-> SubText(ex, <<".pv-entity__secondary-title",
                               ".pv-entity__company-summary-info__company-name">>),
     duration |-> SubText(ex, <<".pv-entity__date-range", ".date-range">>),
     description |-> SubText(ex, <<".pv-entity__description", ".description">>)]

\* lines 393-400
EducationOf(ed) ==
    [degree |-> SubText(ed, <<"h3", ".pv-entity__degree-name">>),
     institution |-> SubText(ed, <<"h4", ".pv-entity__school-name">>),
     year |-> SubText(ed, <<".pv-entity__dates">>)]

\* lines 351-404: the dict built from the markup
Scrape(dom) ==
    LET name_tag == SelectOneOf(dom, NameSelectors)
        headline == SelectOneOf(dom, HeadlineSelectors)
        about_sel == SelectOneOf(dom, AboutSelectors)
        skill_blocks == SelectAnyOf(dom, SkillSelectors)
        exp_sections == Take(SelectAnyOf(dom, ExperienceSelectors), EntryCap)
        edu_sections == Take(SelectAnyOf(dom, EducationSelectors), EntryCap)
        experiences == [i \in 1..Len(exp_sections) |-> ExperienceOf(exp_sections[i])]
        educations == [i \in 1..Len(edu_sections) |-> EducationOf(edu_sections[i])]
    IN  [EmptyFetched EXCEPT
            !.name = IF Len(name_tag) > 0 THEN GetText(name_tag[1]) ELSE @,
            !.current_role = IF Len(headline) > 0 THEN GetText(headline[1]) ELSE @,
            !.summary = IF Len(about_sel) > 0 THEN GetText(about_sel[1]) ELSE @,
            !.skills = SkillTexts(Take(skill_blocks, SkillBlockCap)),
            !.experience = IF Len(experiences) > 0 THEN experiences ELSE @,
            !.education = IF Len(educations) > 0 THEN educations ELSE @]

(***************************************************************************)
(* The pages looked at.                                                    *)
(***************************************************************************)
NoTags == [s \in {} |-> <<>>]

NameParts ==
    {NoTags,
     "h1" :> <<Tag(<<"\n", "Alice Doe", " ">>)>>,
     "h1" :> <<Tag(<<" ">>)>>,
     ".text-heading-xlarge" :> <<Tag(<<"Alice Doe">>)>>,
     ("h1" :> <<Tag(<<"Sign in">>)>>) @@ (".top-card-layout__title" :> <<Tag(<<"Alice Doe">>)>>)}

HeadlineParts ==
    {NoTags,
     ("div.text-body-medium" :> <<Tag(<<"Engineer at Acme">>)>>)
        @@ (".text-body-medium" :> <<Tag(<<"Engineer at Acme">>)>>),
     ".text-body-medium" :> <<Tag(<<" ", "Engineer">>)>>,
     ".top-card-layout__headline" :> <<Tag(<<"Lead at Globex">>)>>}

AboutParts ==
    {NoTags,
     ("#about" :> <<Tag(<<"About", " ", "Python", ",", " ", "Leadership">>)>>)
        @@ ("section#about" :> <<Tag(<<"About", " ", "Python", ",", " ", "Leadership">>)>>),
     ".pv-shared-text-with-see-more" :> <<Tag(<<"I build things">>)>>}

SkillParts ==
    {NoTags,
     ".skill-pill" :> <<Tag(<<"Python">>), Tag(<<" ">>), Tag(<<"Go", " ">>)>>,
     ".skill-name" :> <<Tag(<<"SQL">>)>>,
     ".pv-skill-category-entity__name-text" :>
        [i \in 1..(SkillBlockCap + 1) |-> Tag(<<"Skill ", ToString(i)>>)]}

FullPosition ==
    Element(<<"Engineer", "Acme">>,
            ("h3" :> <<"Engineer">>) @@ (".pv-entity__secondary-title" :> <<"Acme">>)
            @@ (".pv-entity__date-range" :> <<"2019", " ", "-", " ", "2021">>)
            @@ (".pv-entity__description" :> <<" ", "Built things">>))
BarePosition == Element(<<"Intern">>, ".t-16" :> <<"Intern">>)

ExperienceParts ==
    {NoTags,
     "section#experience-section li" :> <<FullPosition, BarePosition>>,
     ".pv-position-entity" :> <<BarePosition>>,
     ".experience__list-item" :> [i \in 1..(EntryCap + 1) |-> FullPosition]}

FullSchool ==
    Element(<<"BSc", "State University">>,
            ("h3" :> <<"BSc">>) @@ ("h4" :> <<"State University">>)
            @@ (".pv-entity__dates" :> <<"2014", " ", "-", " ", "2018">>))
BareSchool == Element(<<"Night School">>, ".pv-entity__school-name" :> <<"Night School">>)

EducationParts ==
    {NoTags,
     "section#education-section li" :> <<FullSchool>>,
     ".pv-entity__school-summary-info" :> <<BareSchool, FullSchool>>}

Doms ==
    {n @@ h @@ a @@ s @@ x @@ e :
        n \in NameParts, h \in HeadlineParts, a \in AboutParts, s \in SkillParts,
        x \in ExperienceParts, e \in EducationParts}

Pages ==
    {[outcome |-> "ConnectionError", status |-> "", parser |-> "", dom |-> NoTags],
     [outcome |-> "Timeout", status |-> "", parser |-> "", dom |-> NoTags],
     [outcome |-> "response", status |-> "404", parser |-> "", dom |-> NoTags],
     [outcome |-> "response", status |-> "999", parser |-> "", dom |-> NoTags],
     [outcome |-> "response", status |-> "200", parser |-> "FeatureNotFound", dom |-> NoTags]}
    \cup {[outcome |-> "response", status |-> "200", parser |-> "lxml", dom |-> d] : d \in Doms}

NoPage == [outcome |-> "none", status |-> "", parser |-> "", dom |-> NoTags]

\* str(e) of what requests.get and BeautifulSoup raise
FetchExceptionText(pg) ==
    CASE pg.outcome = "ConnectionError" -> <<"Connection refused">>
      [] pg.outcome = "Timeout" -> <<"Read timed out. (read timeout=8)">>
      [] pg.parser = "FeatureNotFound" ->
            <<"Couldn't find a tree builder with the features you requested: lxml">>

\* no call of fetch_public_linkedin is being looked at
FetchIdle ==
    /\ fpc = "idle"
    /\ linkedin_url = ""
    /\ page = NoPage
    /\ http_gets = 0
    /\ fetched = None

\* no call of merge_parsed_into_user is being looked at
(***************************************************************************)
(* parse_linkedin_export, src/app.py:203-320.                              *)
(*                                                                         *)
(* An uploaded file has a name (stem and extension) and a body: a ZIP      *)
(* archive of members, or bytes.  Bytes decode as UTF-8 or do not, and the *)
(* text is a JSON document, a CSV table (header and rows of cells), or     *)
(* neither.                                                                *)
(***************************************************************************)
\* a JSON object with the given keys, and numbers as pandas reads them
PyObj(f) == [type |-> "dict", fields |-> f]
Int64(s) == [type |-> "int64", val |-> s]
Float64(s) == [type |-> "float64", val |-> s]

\* a or b
Or(a, b) == IF Truthy(a) THEN a ELSE b

\* d.get(k) and d.get(k, default) on a dict
Get(d, k) == IF k \in DOMAIN d.fields THEN d.fields[k] ELSE None
GetOr(d, k, default) == IF k \in DOMAIN d.fields THEN d.fields[k] ELSE default

\* s.lower() on the names the model uses
LowerTable ==
    { <<"Export", "export">>, <<"EXPORT", "export">>, <<".ZIP", ".zip">>,
      <<".JSON", ".json">>, <<".CSV", ".csv">>, <<"Profile", "profile">>,
      <<"Member_Data", "member_data">>, <<"Notes", "notes">>,
      <<"Connections", "connections">>, <<"Positions", "positions">>,
      <<"Work Experience", "work experience">>, <<"Education", "education">>,
      <<"EDUCATION", "education">>, <<"Full Name", "full name">>,
      <<"Email Address", "email address">>, <<"EMAIL ADDRESS", "email address">>,
      <<"Email", "email">>, <<"Headline", "headline">>, <<"Title", "title">>,
      <<"Company", "company">>, <<"Start Date", "start date">>, <<"End Date", "end date">>,
      <<"Description", "description">>, <<"Position", "position">>,
      <<"Organization", "organization">>, <<"Start", "start">>, <<"End", "end">>,
      <<"Summary", "summary">>, <<"Degree", "degree">>, <<"School", "school">>,
      <<"Institution", "institution">>, <<"Year", "year">>, <<"Date Range", "date range">> }

LowerCase(s) ==
    IF \E p \in LowerTable : p[1] = s
      THEN (CHOOSE p \in LowerTable : p[1] = s)[2]
      ELSE s

\* k in s, for a lower-case s and the keywords the code looks for
Contains(s, k) ==
    k \in (CASE s = "profile" -> {"profile"}
             [] s = "member_data" -> {"member"}
             [] s = "positions" -> {"position", "positions"}
             [] s = "work experience" -> {"experience"}
             [] s = "education" -> {"education"}
             [] s = "email address" -> {"email"}
             [] s = "email" -> {"email"}
             [] OTHER -> {})

FileName(stem, ext) == [stem |-> stem, ext |-> ext]
\* n.lower().endswith(ext)
EndsWith(n, ext) == LowerCase(n.ext) = ext
\* k in n.lower()
NameHas(n, k) == Contains(LowerCase(n.stem), k)

\* bytes, by what .decode('utf-8') and the two parsers make of them
BadBytes == [enc |-> "bad", form |-> "", value |-> None]
Garbage == [enc |-> "utf-8", form |-> "", value |-> None]
JsonBytes(v) == [enc |-> "utf-8", form |-> "json", value |-> v]
CsvBytes(columns, rows) ==
    [enc |-> "utf-8", form |-> "csv", value |-> [columns |-> columns, rows |-> rows]]

(***************************************************************************)
(* pd.read_csv: a column whose cells are all numerals is read as int64, or *)
(* as float64 when some of its cells are empty; an empty cell is NaN.      *)
(***************************************************************************)
Numerals == {"2018", "2019", "2020", "2021", "0"}

Column(t, j) == [i \in 1..Len(t.rows) |-> t.rows[i][j]]

IsNumericColumn(cells) ==
    /\ \E i \in 1..Len(cells) : cells[i] # ""
    /\ \A i \in 1..Len(cells) : cells[i] = "" \/ cells[i] \in Numerals

HasEmptyCell(cells) == \E i \in 1..Len(cells) : cells[i] = ""

Cell(cells, i) ==
    IF cells[i] = "" THEN NaN
    ELSE IF ~IsNumericColumn(cells) THEN Str(cells[i])
    ELSE IF HasEmptyCell(cells) THEN Float64(cells[i] \o ".0")
    ELSE Int64(cells[i])

\* the DataFrame: its columns, and each row as a dict from column to value
read_csv(t) ==
    [columns |-> t.columns,
     rows |-> [i \in 1..Len(t.rows) |->
                 [c \in Range(t.columns) |->
                    LET j == CHOOSE k \in 1..Len(t.columns) : t.columns[k] = c
                    IN  Cell(Column(t, j), i)]]]

\* row.get(c) and row.get(c, default) on a row of a DataFrame
RowGet(r, c) == IF c \in DOMAIN r THEN r[c] ELSE None
RowGetOr(r, c, default) == IF c \in DOMAIN r THEN r[c] ELSE default

\* f"{v}"
Format(v) ==
    CASE v.type = "str" -> v.toks
      [] v.type = "NoneType" -> <<"None">>
      [] v.type = "float" -> <<"nan">>
      [] OTHER -> <<v.val>>

\* .strip(' -')
StripSeparator(t) ==
    LET S == {j \in 1..Len(t) : t[j] \notin {" ", "-"}}
    IN  IF S = {} THEN <<>> ELSE SubSeq(t, Min(S), Max(S))

\* the state of the try block: the dict so far and the exception raised, if any
Going(p) == [p |-> p, exc |-> ""]
Raised(p, msg) == [p |-> p, exc |-> msg]

(***************************************************************************)
(* Lines 230-237: the first profile JSON of the archive.                   *)
(***************************************************************************)
IsProfileJson(n) == EndsWith(n, ".json") /\ (NameHas(n, "profile") \/ NameHas(n, "member"))

\* lines 232-237 and 298-300 share the decoding: the text, then the dict
Decoded(s, bytes) ==
    IF bytes.enc = "bad"
      THEN Raised(s.p, "'utf-8' codec can't decode byte 0xff in position 0: invalid start byte")
    ELSE IF bytes.form # "json"
      THEN Raised(s.p, "Expecting value: line 1 column 1 (char 0)")
    ELSE IF bytes.value.type # "dict"
      THEN Raised(s.p, "'list' object has no attribute 'get'")
    ELSE s

ProfileFromJson(s, bytes) ==
    IF Decoded(s, bytes).exc # "" THEN Decoded(s, bytes)
    ELSE LET data == bytes.value
             fn == Or(Get(data, "firstName"), Or(Get(data, "localizedFirstName"), Str("")))
             ln == Or(Get(data, "lastName"), Or(Get(data, "localizedLastName"), Str("")))
         IN  IF fn.type # "str" \/ ln.type # "str"
               THEN Raised(s.p, "unsupported operand type(s) for +")
               ELSE Going([s.p EXCEPT
                      !.name = Or(Text(Strip(fn.toks \o <<" ">> \o ln.toks)),
                                  Or(Get(data, "fullName"), @)),
                      !.summary = GetOr(data, "summary", @)])

ProfileJsonStep(s, members) ==
    LET hits == {i \in 1..Len(members) : IsProfileJson(members[i].name)}
    IN  IF hits = {} THEN s ELSE ProfileFromJson(s, members[Min(hits)].data)

(***************************************************************************)
(* Lines 240-278: every CSV of the archive, in the order of the archive.   *)
(***************************************************************************)
ContactColumns == {"full name", "email address", "headline"}
EmailColumns == <<"Email Address", "Email", "email address", "email">>

\* lines 252-254: each of the columns that exists assigns in its turn
RECURSIVE EmailAfter(_, _, _)
EmailAfter(email, row, i) ==
    IF i > Len(EmailColumns) THEN email
    ELSE EmailAfter(IF EmailColumns[i] \in DOMAIN row THEN row[EmailColumns[i]] ELSE email,
                    row, i + 1)

\* lines 248-256
ContactStep(s, df) ==
    IF s.exc # "" \/ ~(\E c \in Range(df.columns) : LowerCase(c) \in ContactColumns) THEN s
    ELSE IF Len(df.rows) = 0 THEN Raised(s.p, "single positional indexer is out-of-bounds")
    ELSE LET row == df.rows[1]
         IN  Going([s.p EXCEPT
                !.name = IF "Full Name" \in DOMAIN row THEN row["Full Name"] ELSE @,
                !.email = EmailAfter(@, row, 1),
                !.current_role = IF "Headline" \in DOMAIN row THEN row["Headline"] ELSE @])

\* lines 260-271
ExperienceEntry(r) ==
    LET start == Or(RowGet(r, "Start Date"), Or(RowGet(r, "Start"), Str("")))
        end == Or(RowGet(r, "End Date"), Or(RowGet(r, "End"), Str("")))
    IN  [title |-> Or(RowGet(r, "Title"), Or(RowGet(r, "Position"),
                      Or(RowGet(r, "Job Title"), Str("")))),
         company |-> Or(RowGet(r, "Company"), Or(RowGet(r, "Organization"), Str(""))),
         duration |-> Text(StripSeparator(Format(start) \o <<" ", "-", " ">> \o Format(end))),
         description |-> Or(RowGet(r, "Description"), Or(RowGet(r, "Summary"), Str("")))]

\* lines 258-271
PositionsStep(s, n, df) ==
    IF s.exc # "" \/ ~(\E k \in {"position", "positions", "experience"} : NameHas(n, k)) THEN s
    ELSE Going([s.p EXCEPT
           !.experience = @ \o [i \in 1..Len(df.rows) |-> ExperienceEntry(df.rows[i])]])

\* lines 274-278
EducationEntry(r) ==
    [degree |-> Or(RowGet(r, "Degree"), Or(RowGet(r, "Title"), Str(""))),
     institution |-> Or(RowGet(r, "School"), Or(RowGet(r, "Institution"),
                        Or(RowGet(r, "Organization"), Str("")))),
     year |-> Or(RowGet(r, "End Date"), Or(RowGet(r, "Year"), Str("")))]

\* lines 272-278
EducationStep(s, n, df) ==
    IF s.exc # "" \/ ~NameHas(n, "education") THEN s
    ELSE Going([s.p EXCEPT
           !.education = @ \o [i \in 1..Len(df.rows) |-> EducationEntry(df.rows[i])]])

\* lines 241-278, one file
CsvFile(s, m) ==
    IF s.exc # "" THEN s
    ELSE IF m.data.enc = "bad"
      THEN Raised(s.p, "'utf-8' codec can't decode byte 0xff in position 0: invalid start byte")
    ELSE IF m.data.form # "csv" THEN s
    ELSE LET df == read_csv(m.data.value)
         IN  EducationStep(PositionsStep(ContactStep(s, df), m.name, df), m.name, df)

RECURSIVE CsvLoop(_, _, _)
CsvLoop(s, members, i) ==
    IF i > Len(members) THEN s
    ELSE CsvLoop(IF EndsWith(members[i].name, ".csv") THEN CsvFile(s, members[i]) ELSE s,
                 members, i + 1)

(***************************************************************************)
(* Lines 281-291: with no email yet, the first column of each CSV whose    *)
(* name has "email" in it.                                                 *)
(***************************************************************************)
FallbackFile(s, m) ==
    IF s.exc # "" THEN s
    ELSE IF m.data.enc = "bad"
      THEN Raised(s.p, "'utf-8' codec can't decode byte 0xff in position 0: invalid start byte")
    ELSE IF m.data.form # "csv" THEN s
    ELSE LET df == read_csv(m.data.value)
             hits == {j \in 1..Len(df.columns) : Contains(LowerCase(df.columns[j]), "email")}
         IN  IF hits = {} THEN s
             ELSE IF Len(df.rows) = 0
               THEN Raised(s.p, "single positional indexer is out-of-bounds")
             ELSE Going([s.p EXCEPT !.email = df.rows[1][df.columns[Min(hits)]]])

RECURSIVE FallbackLoop(_, _, _)
FallbackLoop(s, members, i) ==
    IF i > Len(members) THEN s
    ELSE FallbackLoop(IF EndsWith(members[i].name, ".csv") THEN FallbackFile(s, members[i])
                      ELSE s,
                      members, i + 1)

EmailFallback(s, members) ==
    IF s.exc # "" \/ Truthy(s.p.email) THEN s ELSE FallbackLoop(s, members, 1)

(***************************************************************************)
(* Lines 295-312: a JSON or CSV file uploaded as it is.                    *)
(***************************************************************************)
DirectJson(s, bytes) ==
    IF Decoded(s, bytes).exc # "" THEN Decoded(s, bytes)
    ELSE LET data == bytes.value
         IN  Going([s.p EXCEPT
                !.name = Or(Get(data, "fullName"), Or(Get(data, "name"), @)),
                !.summary = GetOr(data, "summary", @)])

\* lines 307-312
DirectEntry(r) ==
    [title |-> RowGetOr(r, "Title", Str("")),
     company |-> RowGetOr(r, "Company", Str("")),
     duration |-> RowGetOr(r, "Date Range", Str("")),
     description |-> RowGetOr(r, "Description", Str(""))]

DirectCsv(s, bytes) ==
    IF bytes.form # "csv" THEN Raised(s.p, "No columns to parse from file")
    ELSE LET df == read_csv(bytes.value)
             cols == Range(df.columns)
         IN  IF "Full Name" \in cols /\ Len(df.rows) = 0
               THEN Raised(s.p, "single positional indexer is out-of-bounds")
             ELSE Going([s.p EXCEPT
                    !.name = IF "Full Name" \in cols THEN df.rows[1]["Full Name"] ELSE @,
                    !.experience =
                        IF "Title" \in cols /\ "Company" \in cols
                          THEN @ \o [i \in 1..Len(df.rows) |-> DirectEntry(df.rows[i])]
                          ELSE @])

Direct(s, f) ==
    IF f.body.data.enc = "bad"
      THEN Raised(s.p, "'utf-8' codec can't decode byte 0xff in position 0: invalid start byte")
    ELSE IF EndsWith(f.name, ".json") THEN DirectJson(s, f.body.data)
    ELSE IF EndsWith(f.name, ".csv") THEN DirectCsv(s, f.body.data)
    ELSE s

(***************************************************************************)
(* Lines 317-318: skills from the summary, after the try statement.        *)
(***************************************************************************)
Separators == {",", "\n", ";"}
FragmentLimit == 40
SkillCap == 12

\* re.split(r'[,\n;]', t)
RECURSIVE Split(_)
Split(t) ==
    LET S == {j \in 1..Len(t) : t[j] \in Separators}
    IN  IF S = {} THEN <<t>>
        ELSE <<SubSeq(t, 1, Min(S) - 1)>> \o Split(SubSeq(t, Min(S) + 1, Len(t)))

\* len(s) of a str
RECURSIVE CharLen(_)
CharLen(t) == IF t = <<>> THEN 0 ELSE Len(Head(t)) + CharLen(Tail(t))

InferredSkills(summary) ==
    LET short == SelectSeq([i \in 1..Len(Split(summary.toks)) |-> Strip(Split(summary.toks)[i])],
                           LAMBDA frag : CharLen(frag) < FragmentLimit)
    IN  Take([i \in 1..Len(short) |-> Text(short[i])], SkillCap)

InferenceApplies(p) == ~TruthyList(p.skills) /\ Truthy(p.summary)
(***************************************************************************)
(* The files the model uploads.                                            *)
(***************************************************************************)
Member(n, d) == [name |-> n, data |-> d]
Archive(members) == [kind |-> "zip", members |-> members]
Bytes(d) == [kind |-> "bytes", data |-> d]
Upload(n, b) == [name |-> n, body |-> b]
NoFile == Upload(FileName("", ""), Bytes(Garbage))

SummaryList == Text(<<"Python", ",", " ", "SQL", ";", " ", "Leadership">>)
SummaryLong ==
    Text(<<"Engineer with ten years of experience in distributed systems", ",",
           " ", "Go", ",">>)
SummaryMany ==
    Text(<<"a", ",", "b", ",", "c", ",", "d", ",", "e", ",", "f", ",", "g", "\n",
           "h", ",", "i", ",", "j", ",", "k", ";", "l", ",", "m">>)

ProfileDocuments ==
    { JsonBytes(PyObj(("firstName" :> Str("Ada")) @@ ("lastName" :> Str("Lovelace"))
                      @@ ("summary" :> SummaryList))),
      JsonBytes(PyObj(("localizedFirstName" :> Str("Grace"))
                      @@ ("localizedLastName" :> Str("Hopper")))),
      JsonBytes(PyObj(("fullName" :> Str("Alan Turing")) @@ ("summary" :> None))),
      JsonBytes(PyObj(("firstName" :> Str("Ada")) @@ ("summary" :> PyInt(2)))),
      JsonBytes(PyObj(("firstName" :> PyObj("localized" :> Str("Ada")))
                      @@ ("summary" :> SummaryList))),
      JsonBytes(PyObj(("name" :> Str("Linus")) @@ ("summary" :> SummaryMany))),
      JsonBytes(PyObj(("lastName" :> Str("Curie")) @@ ("summary" :> SummaryLong))),
      JsonBytes(PyList(<<>>)),
      Garbage,
      BadBytes }

JsonMembers ==
    {Member(FileName("Profile", ".json"), d) : d \in ProfileDocuments}
    \cup {Member(FileName("Member_Data", ".JSON"),
                 JsonBytes(PyObj(("firstName" :> Str("Grace")) @@ ("summary" :> SummaryList)))),
          Member(FileName("Notes", ".json"),
                 JsonBytes(PyObj("fullName" :> Str("Nobody"))))}

ContactTables ==
    { CsvBytes(<<"Full Name", "Email Address", "Email", "Headline">>,
               << <<"Ada Lovelace", "ada@work.example", "ada@home.example", "Engineer">> >>),
      CsvBytes(<<"Email Address", "Email">>, << <<"ada@work.example", "ada@home.example">> >>),
      CsvBytes(<<"Email", "Email Address">>, << <<"ada@home.example", "ada@work.example">> >>),
      CsvBytes(<<"Email Address">>, << <<"ada@work.example">> >>),
      CsvBytes(<<"Email">>, << <<"ada@home.example">> >>),
      CsvBytes(<<"EMAIL ADDRESS">>, << <<"ada@work.example">> >>),
      CsvBytes(<<"Full Name", "Email Address">>, << <<"Ada Lovelace", "">> >>),
      CsvBytes(<<"Full Name", "Headline">>, <<>>) }

PositionCells ==
    << <<"Engineer", "Acme", "2019", "2021", "Built things">>,
       <<"Intern", "Initech", "2018", "", "">>,
       <<"Lead", "Globex", "Jan 2021", "Present", "Led a team">>,
       <<"", "Umbrella", "", "2020", "">> >>

EducationCells ==
    << <<"BSc", "State University", "2018">>,
       <<"MSc", "Tech Institute", "">>,
       <<"", "Night School", "2020">>,
       <<"PhD", "", "2021">> >>

PositionTables ==
    {CsvBytes(<<"Title", "Company", "Start Date", "End Date", "Description">>,
              SubSeq(PositionCells, 1, k)) : k \in 0..MaxRows}
EducationTables ==
    {CsvBytes(<<"Degree", "School", "End Date">>, SubSeq(EducationCells, 1, k)) : k \in 0..MaxRows}

CsvMembers ==
    {Member(FileName("Connections", ".csv"), d) : d \in ContactTables \cup {Garbage}}
    \cup {Member(FileName("Positions", ".csv"), d) : d \in PositionTables \cup {BadBytes}}
    \cup {Member(FileName("Work Experience", ".CSV"),
                 CsvBytes(<<"Position", "Organization", "Start", "End", "Summary">>,
                          << <<"Analyst", "Hooli", "2020", "Present", "Analysed">> >>))}
    \cup {Member(FileName("Education", ".csv"), d) : d \in EducationTables}
    \cup {Member(FileName("EDUCATION", ".CSV"),
                 CsvBytes(<<"Title", "Institution", "Year", "Email">>,
                          << <<"MBA", "Business School", "2022", "mba@school.example">> >>))}

\* the members of an archive have different names
Archives ==
    {Archive(ms) : ms \in {s \in SeqsUpTo(JsonMembers \cup CsvMembers, MaxMembers) :
                             \A i, j \in 1..Len(s) : i # j => s[i].name # s[j].name}}

DirectTables ==
    {CsvBytes(<<"Full Name", "Title", "Company", "Date Range", "Description">>,
              SubSeq(<< <<"Ada Lovelace", "Engineer", "Acme", "2019 - 2021", "Built things">>,
                        <<"Ada Lovelace", "Intern", "Initech", "", "">>,
                        <<"Ada Lovelace", "Lead", "Globex", "2021", "">>,
                        <<"", "", "", "", "">> >>, 1, k)) : k \in 0..MaxRows}
    \cup {CsvBytes(<<"Title", "Company">>, << <<"Engineer", "Acme">> >>),
          CsvBytes(<<"Headline">>, << <<"Engineer">> >>)}

Uploads ==
    {Upload(FileName("Export", ".zip"), a) : a \in Archives}
    \cup {Upload(FileName("Export", ".zip"), Bytes(Garbage)),
          Upload(FileName("EXPORT", ".ZIP"), Archive(<<>>))}
    \cup {Upload(FileName("Profile", ".json"), Bytes(d)) : d \in ProfileDocuments}
    \cup {Upload(FileName("Connections", ".CSV"), Bytes(d)) :
            d \in DirectTables \cup {Garbage, BadBytes}}

ExportIdle ==
    /\ epc = "idle"
    /\ uploaded_file = NoFile
    /\ exported = EmptyParsed
    /\ caught = ""
    /\ warning = ""

(***************************************************************************)
(* The functions as main calls them: each is the composition of the steps  *)
(* above.                                                                  *)
(***************************************************************************)
\* tailor_resume_experience, lines 68-105; TypeError when query_ollama
\* returned no str
TailorRaises(r, out) == query_ollama(r, out).type # "str"
tailor_resume_experience(experience_list_, r, out) ==
    Extract(query_ollama(r, out).toks, experience_list_)

\* generate_cover_letter, lines 48-65
generate_cover_letter(r, out) == query_ollama(r, out)

\* fetch_public_linkedin, lines 322-407
fetch_public_linkedin(url, pg) ==
    IF ~validators_url(url) THEN WithError(EmptyFetched, <<"Invalid URL">>)
    ELSE IF pg.outcome # "response" THEN WithError(EmptyFetched, FetchExceptionText(pg))
    ELSE IF pg.status # "200"
      THEN WithError(EmptyFetched, <<"Could not fetch page (status ", pg.status, ")">>)
    ELSE IF pg.parser # "lxml" THEN WithError(EmptyFetched, FetchExceptionText(pg))
    ELSE Scrape(pg.dom)

\* parse_linkedin_export, lines 203-320: the try statement, then the
\* inference; raised when line 318 raises
TryBlock(f) ==
    IF EndsWith(f.name, ".zip")
      THEN IF f.body.kind # "zip" THEN Raised(EmptyParsed, "File is not a zip file")
           ELSE EmailFallback(CsvLoop(ProfileJsonStep(Going(EmptyParsed), f.body.members),
                                      f.body.members, 1),
                              f.body.members)
      ELSE Direct(Going(EmptyParsed), f)

ExportRaises(f) ==
    InferenceApplies(TryBlock(f).p) /\ TryBlock(f).p.summary.type # "str"

parse_linkedin_export(f) ==
    IF InferenceApplies(TryBlock(f).p)
      THEN [TryBlock(f).p EXCEPT !.skills = InferredSkills(TryBlock(f).p.summary)]
      ELSE TryBlock(f).p

(***************************************************************************)
(* create_resume_pdf, lines 108-175.  A Paragraph is built from a str; the *)
(* document is the list of what was rendered, or None when the rendering   *)
(* raised.                                                                 *)
(***************************************************************************)
IsStr(v) == v.type = "str"

\* (mutant) the flag alone decides
ExperienceSourceFlagOnly(u, use_tailored) ==
    IF use_tailored THEN u.tailored_experience ELSE PyList(u.experience)

\* line 143: user_data.get('tailored_experience') if use_tailored and
\* user_data.get('tailored_experience') else user_data.get('experience', [])
ExperienceSource(u, use_tailored) ==
    IF use_tailored /\ Truthy(u.tailored_experience)
      THEN u.tailored_experience
      ELSE PyList(u.experience)

\* lines 145-152 on one entry: exp.get(...) needs a dict, Paragraph a str
EntryRenders(e) ==
    IF "description" \in DOMAIN e THEN IsStr(e.description) ELSE e.type = "dict"

\* iterating the source: a list gives its items, a dict its keys (strs), and
\* an int cannot be iterated
SourceRenders(src) ==
    \/ ~Truthy(src)
    \/ src.type = "list" /\ \A i \in 1..Len(src.items) : EntryRenders(src.items[i])

PdfRenders(u, use_tailored) ==
    /\ IsStr(u.name)
    /\ Truthy(u.summary) => IsStr(u.summary)
    /\ SourceRenders(ExperienceSource(u, use_tailored))
    /\ \A i \in 1..Len(u.skills) : IsStr(u.skills[i])
    /\ \A i \in 1..Len(u.projects) : IsStr(u.projects[i].description)

NoPdf == [type |-> "absent", val |-> "", use_tailored |-> FALSE]
create_resume_pdf(u, use_tailored) ==
    IF PdfRenders(u, use_tailored)
      THEN [type |-> "BytesIO", experience |-> ExperienceSource(u, use_tailored),
            use_tailored |-> use_tailored]
      ELSE [type |-> "NoneType", val |-> "None", use_tailored |-> use_tailored]

(***************************************************************************)
(* main, lines 432-658: the session.  Streamlit runs the script from the   *)
(* top on every user action and on every rerun the script asks for; the    *)
(* widgets of the current step are evaluated first, then the handler of    *)
(* the control that was used.                                              *)
(***************************************************************************)
\* lines 438-447; tailored_experience holds what tailor_resume_experience
\* returned, a list at first
InitialUserData == [EmptyUserData EXCEPT !.tailored_experience = PyList(<<>>)]
NoLetter == [type |-> "absent", val |-> ""]

\* st.text_input(label, value) and st.text_area(label, value) before the
\* user types: the value cast to str, and None for None
TextInput(v) == IF v.type = "NoneType" THEN None ELSE Text(Format(v))

\* line 537
SkillsInput(skills) ==
    SelectSeq([i \in 1..Len(skills) |-> Text(Strip(skills[i].toks))],
              LAMBDA s : s.toks # <<>>)

\* lines 540-546, 565-569, 578-582: every field of every entry
EntryInputs(l) == [i \in 1..Len(l) |-> [f \in DOMAIN l[i] |-> TextInput(l[i][f])]]

\* the widgets of a step, with nothing typed
Render(u, step) ==
    CASE step = 1 -> [u EXCEPT !.name = TextInput(@), !.email = TextInput(@),
                               !.phone = TextInput(@), !.current_role = TextInput(@),
                               !.summary = TextInput(@)]
      [] step = 2 -> [u EXCEPT !.skills = SkillsInput(@), !.experience = EntryInputs(@)]
      [] step = 3 -> [u EXCEPT !.projects = EntryInputs(@), !.education = EntryInputs(@)]
      [] step = 4 -> [u EXCEPT !.job_description = TextInput(@)]
      [] OTHER -> u

\* lines 625-635: the comparison view indexes tailored_experience as a list
\* of dicts, once for each original entry it has a partner for
ComparisonRaises(u) ==
    /\ Truthy(u.tailored_experience)
    /\ Len(u.experience) > 0
    /\ \/ u.tailored_experience.type # "list"
       \/ \E i \in 1..Min({Len(u.experience), Len(u.tailored_experience.items)}) :
             LET new == u.tailored_experience.items[i]
             IN  "description" \notin DOMAIN new /\ new.type # "dict"

\* lines 651-654: create_cover_letter_pdf(cl, user_data), lines 177-199
CoverPdfRaises(letter, u) ==
    /\ letter # NoLetter
    /\ ~(IsStr(letter) /\ IsStr(u.name) /\ IsStr(u.email) /\ IsStr(u.phone))

\* the controls of step 5 that the script reaches
DownloadShown(u) == ~ComparisonRaises(u)
WriteCoverShown(u) == ~ComparisonRaises(u)
StartOverShown(u, letter) == ~ComparisonRaises(u) /\ ~CoverPdfRaises(letter, u)

(***************************************************************************)
(* What the user and the world give the session.                           *)
(***************************************************************************)
ImportOptions == {"manual", "url", "upload", "oauth"}

SessionUrls == {"https://www.linkedin.com/in/alice", "not a url"}
SessionPages ==
    {[outcome |-> "response", status |-> "404", parser |-> "", dom |-> NoTags],
     [outcome |-> "response", status |-> "200", parser |-> "lxml",
      dom |-> ("h1" :> <<Tag(<<"Alice">>)>>) @@ (".text-body-medium" :> <<Tag(<<"Engineer">>)>>)
              @@ (".skill-pill" :> <<Tag(<<"Python">>)>>)]}

SessionUploads ==
    {Upload(FileName("Export", ".zip"),
            Archive(<<Member(FileName("Connections", ".csv"),
                             CsvBytes(<<"Full Name", "Email Address">>,
                                      << <<"Ada Lovelace", "">> >>))>>)),
     Upload(FileName("Export", ".zip"),
            Archive(<<Member(FileName("Positions", ".csv"),
                             CsvBytes(<<"Title", "Company", "Start Date", "End Date",
                                        "Description">>,
                                      SubSeq(PositionCells, 1, 1)))>>)),
     Upload(FileName("Profile", ".json"),
            Bytes(JsonBytes(PyObj(("firstName" :> Str("Ada")) @@ ("summary" :> PyInt(2))))))}

\* the user the OAuth backend stored (src/linkedin_oauth_backend.py:71-85),
\* as GET /profile/<lid> returns it; {} for an id it does not know
OAuthUser(first, last, headline, email) ==
    PyObj(("first_name" :> first) @@ ("last_name" :> last) @@ ("headline" :> headline)
          @@ ("email" :> email))
Profiles ==
    {OAuthUser(Str("Ada"), Str("Lovelace"), Str("Engineer"), Str("ada@linkedin.example")),
     OAuthUser(Str("Ada"), Str("Lovelace"), None, None),
     OAuthUser(None, None, None, None),
     PyObj(<<>>),
     [type |-> "ConnectionError", val |-> "Connection refused"]}

TailorOutcomes ==
    {[reply |-> Answer, out |-> <<"[", "{A}", "]">>],
     [reply |-> Answer, out |-> <<"[", "1", "]">>],
     [reply |-> Answer, out |-> <<"x">>],
     [reply |-> [kind |-> "ConnectionError", code |-> "", body |-> ""], out |-> <<>>],
     [reply |-> [kind |-> "status", code |-> "500", body |-> ""], out |-> <<>>],
     [reply |-> [kind |-> "ok", code |-> "200", body |-> "null_response"], out |-> <<>>]}

LetterOutcomes ==
    {[reply |-> Answer, out |-> <<"Dear hiring manager">>],
     [reply |-> Answer, out |-> <<"Dear team">>],
     [reply |-> [kind |-> "ConnectionError", code |-> "", body |-> ""], out |-> <<>>],
     [reply |-> [kind |-> "status", code |-> "500", body |-> ""], out |-> <<>>]}

\* the attempt got no usable answer from the model
ModelFailed(o) == o.reply.kind # "ok" \/ o.reply.body # "response"
TailorFailed(o) ==
    \/ ModelFailed(o)
    \/ json_loads(JsonStr(query_ollama(o.reply, o.out).toks)) = JSONDecodeError

(***************************************************************************)
(* The session state and one script run.                                   *)
(***************************************************************************)
Now ==
    [current_step |-> current_step, user_data |-> user_data, cl |-> cl,
     import_option |-> import_option, uploaded |-> uploaded, script |-> script,
     invoked |-> invoked, events |-> events, pdf |-> pdf, shown |-> shown,
     outcome |-> outcome]

Becomes(s) ==
    /\ current_step' = s.current_step
    /\ user_data' = s.user_data
    /\ cl' = s.cl
    /\ import_option' = s.import_option
    /\ uploaded' = s.uploaded
    /\ script' = s.script
    /\ invoked' = s.invoked
    /\ events' = s.events
    /\ pdf' = s.pdf
    /\ shown' = s.shown
    /\ outcome' = s.outcome
    /\ UNCHANGED <<mergeVars, tailorVars, fetchVars, exportVars>>

\* a run starts: the download button and the messages of the last run go
Fresh(s) == [s EXCEPT !.pdf = NoPdf, !.shown = "", !.outcome = "", !.script = "waiting"]

\* a run the user caused, and one the script asked for
ByUser(s) == [Fresh(s) EXCEPT !.invoked = 0]
Counted(s) == [ByUser(s) EXCEPT !.events = @ + 1]

\* (mutant) Start Over forgets the Record and the step, and keeps the letter
session_state_keep_cl(s) ==
    [s EXCEPT !.current_step = 1, !.user_data = InitialUserData]
\* line 657 and, on the run that follows, lines 438-447
session_state_clear(s) ==
    [s EXCEPT !.current_step = 1, !.user_data = InitialUserData, !.cl = NoLetter]

\* lines 485-492, reached on every run of step 1 while the upload option is
\* chosen and the uploader holds a file
UploadPending(s) ==
    s.current_step = 1 /\ s.import_option = "upload" /\ s.uploaded # NoFile

UploadBlock(s) ==
    IF ~UploadPending(s) THEN s
    ELSE IF ExportRaises(s.uploaded)
      THEN [s EXCEPT !.invoked = @ + 1, !.shown = "TypeError"]
      ELSE [s EXCEPT !.invoked = @ + 1,
                     !.user_data = merge_parsed_into_user(parse_linkedin_export(s.uploaded), @),
                     !.shown = "Imported from export",
                     !.script = "rerun"]

\* lines 511-525 with the profile the backend answers with
JoinedName(profile) ==
    Text(Strip(GetOr(profile, "first_name", Str("")).toks \o <<" ">>
               \o GetOr(profile, "last_name", Str("")).toks))

OAuthRaises(u, profile) ==
    \/ profile.type # "dict"
    \/ /\ Truthy(profile)
       /\ ~Truthy(u.name)
       /\ ~(IsStr(GetOr(profile, "first_name", Str("")))
            /\ IsStr(GetOr(profile, "last_name", Str(""))))

OAuthImport(u, profile) ==
    [u EXCEPT !.name = IF Truthy(@) THEN @ ELSE JoinedName(profile),
              !.email = Or(@, Get(profile, "email")),
              !.current_role = Or(@, Get(profile, "headline"))]

SessionIdle ==
    /\ current_step = 0
    /\ user_data = InitialUserData
    /\ cl = NoLetter
    /\ import_option = "manual"
    /\ uploaded = NoFile
    /\ script = "idle"
    /\ invoked = 0
    /\ events = 0
    /\ pdf = NoPdf
    /\ shown = ""
    /\ outcome = ""

MergeIdle ==
    /\ mpc = "idle"
    /\ parsed = EmptyParsed
    /\ ud = EmptyUserData
    /\ args = [parsed |-> EmptyParsed, ud |-> EmptyUserData]

\* no call of tailor_resume_experience is being looked at
TailorIdle ==
    /\ tpc = "idle"
    /\ experience_list = PyList(<<>>)
    /\ reply = Answer
    /\ model_output = NoOutput
    /\ response_text = None
    /\ tailored = None
    /\ st_messages = <<>>

TailorInit ==
    /\ tpc = "call"
    /\ experience_list \in ExperienceLists
    /\ \/ reply = Answer /\ model_output \in RawOutputs \cup WrappedOutputs
       \/ reply \in Replies /\ model_output = NoOutput
    /\ response_text = None
    /\ tailored = None
    /\ st_messages = <<>>
    /\ MergeIdle
    /\ FetchIdle
    /\ ExportIdle
    /\ SessionIdle

\* line 90: response_text = query_ollama(prompt)
Query ==
    /\ tpc = "call"
    /\ response_text' = query_ollama(reply, model_output.text)
    /\ tpc' = "queried"
    /\ UNCHANGED <<experience_list, reply, model_output, tailored, st_messages, mergeVars, fetchVars, exportVars, sessionVars>>

\* lines 93-105 on a str
ExtractList ==
    /\ tpc = "queried"
    /\ response_text.type = "str"
    /\ tailored' = Extract(response_text.toks, experience_list)
    /\ st_messages' = ExtractMessages(response_text.toks)
    /\ tpc' = "done"
    /\ UNCHANGED <<experience_list, reply, model_output, response_text, mergeVars, fetchVars, exportVars, sessionVars>>

\* line 94 on a value that is no str: re.search raises TypeError, which the
\* `except json.JSONDecodeError` does not catch
ExtractRaises ==
    /\ tpc = "queried"
    /\ response_text.type # "str"
    /\ tpc' = "raised"
    /\ UNCHANGED <<experience_list, reply, model_output, response_text, tailored,
                   st_messages, mergeVars, fetchVars, exportVars, sessionVars>>

TailorNext == Query \/ ExtractList \/ ExtractRaises

TailorSpec == TailorInit /\ [][TailorNext]_vars

\* line 344-345 on a URL that is not well-formed: ValueError("Invalid URL")
RejectUrl ==
    /\ fpc = "call"
    /\ ~validators_url(linkedin_url)
    /\ fetched' = WithError(EmptyFetched, <<"Invalid URL">>)
    /\ fpc' = "done"
    /\ UNCHANGED <<linkedin_url, page, http_gets, mergeVars, tailorVars, exportVars, sessionVars>>

\* line 344 on a well-formed URL
AcceptUrl ==
    /\ fpc = "call"
    /\ validators_url(linkedin_url)
    /\ fpc' = "validated"
    /\ UNCHANGED <<linkedin_url, page, http_gets, fetched, mergeVars, tailorVars, exportVars, sessionVars>>

\* line 347, when requests.get raises
GetFails ==
    /\ fpc = "validated"
    /\ page.outcome \in {"ConnectionError", "Timeout"}
    /\ http_gets' = http_gets + 1
    /\ fetched' = WithError(EmptyFetched, FetchExceptionText(page))
    /\ fpc' = "done"
    /\ UNCHANGED <<linkedin_url, page, mergeVars, tailorVars, exportVars, sessionVars>>

\* lines 347-349, when the status is not 200
GetNot200 ==
    /\ fpc = "validated"
    /\ page.outcome = "response"
    /\ page.status # "200"
    /\ http_gets' = http_gets + 1
    /\ fetched' = WithError(EmptyFetched, <<"Could not fetch page (status ", page.status, ")">>)
    /\ fpc' = "done"
    /\ UNCHANGED <<linkedin_url, page, mergeVars, tailorVars, exportVars, sessionVars>>

\* lines 347-348, when the status is 200
Get200 ==
    /\ fpc = "validated"
    /\ page.outcome = "response"
    /\ page.status = "200"
    /\ http_gets' = http_gets + 1
    /\ fpc' = "fetched"
    /\ UNCHANGED <<linkedin_url, page, fetched, mergeVars, tailorVars, exportVars, sessionVars>>

\* line 351, when BeautifulSoup raises
SoupFails ==
    /\ fpc = "fetched"
    /\ page.parser # "lxml"
    /\ fetched' = WithError(EmptyFetched, FetchExceptionText(page))
    /\ fpc' = "done"
    /\ UNCHANGED <<linkedin_url, page, http_gets, mergeVars, tailorVars, exportVars, sessionVars>>

\* lines 351-404
ScrapePage ==
    /\ fpc = "fetched"
    /\ page.parser = "lxml"
    /\ fetched' = Scrape(page.dom)
    /\ fpc' = "done"
    /\ UNCHANGED <<linkedin_url, page, http_gets, mergeVars, tailorVars, exportVars, sessionVars>>

FetchInit ==
    /\ fpc = "call"
    /\ \/ linkedin_url \in MalformedUrls /\ page \in {p \in Pages : p.dom = NoTags}
       \/ linkedin_url \in WellFormedUrls /\ page \in Pages
    /\ http_gets = 0
    /\ fetched = None
    /\ MergeIdle
    /\ TailorIdle
    /\ ExportIdle
    /\ SessionIdle

FetchNext ==
    RejectUrl \/ AcceptUrl \/ GetFails \/ GetNot200 \/ Get200 \/ SoupFails \/ ScrapePage

FetchSpec == FetchInit /\ [][FetchNext]_vars

(***************************************************************************)
(* parse_linkedin_export, line by line.                                    *)
(***************************************************************************)
IsZipName == EndsWith(uploaded_file.name, ".zip")

\* line 224, the archive opens
OpenArchive ==
    /\ epc = "call"
    /\ IsZipName
    /\ uploaded_file.body.kind = "zip"
    /\ epc' = "profile"
    /\ UNCHANGED <<uploaded_file, exported, caught, warning, mergeVars, tailorVars, fetchVars, sessionVars>>

\* line 224, zipfile.BadZipFile
BadZipFile ==
    /\ epc = "call"
    /\ IsZipName
    /\ uploaded_file.body.kind # "zip"
    /\ caught' = "File is not a zip file"
    /\ epc' = "except"
    /\ UNCHANGED <<uploaded_file, exported, warning, mergeVars, tailorVars, fetchVars, sessionVars>>

\* lines 227-237
ReadProfileJson ==
    /\ epc = "profile"
    /\ LET s == ProfileJsonStep(Going(exported), uploaded_file.body.members)
       IN  /\ exported' = s.p
           /\ caught' = s.exc
           /\ epc' = IF s.exc = "" THEN "csv" ELSE "except"
    /\ UNCHANGED <<uploaded_file, warning, mergeVars, tailorVars, fetchVars, sessionVars>>

\* lines 240-278
ReadCsvFiles ==
    /\ epc = "csv"
    /\ LET s == CsvLoop(Going(exported), uploaded_file.body.members, 1)
       IN  /\ exported' = s.p
           /\ caught' = s.exc
           /\ epc' = IF s.exc = "" THEN "fallback" ELSE "except"
    /\ UNCHANGED <<uploaded_file, warning, mergeVars, tailorVars, fetchVars, sessionVars>>

\* lines 281-291
FindEmail ==
    /\ epc = "fallback"
    /\ LET s == EmailFallback(Going(exported), uploaded_file.body.members)
       IN  /\ exported' = s.p
           /\ caught' = s.exc
           /\ epc' = IF s.exc = "" THEN "infer" ELSE "except"
    /\ UNCHANGED <<uploaded_file, warning, mergeVars, tailorVars, fetchVars, sessionVars>>

\* lines 295-312
ReadDirect ==
    /\ epc = "call"
    /\ ~IsZipName
    /\ LET s == Direct(Going(exported), uploaded_file)
       IN  /\ exported' = s.p
           /\ caught' = s.exc
           /\ epc' = IF s.exc = "" THEN "infer" ELSE "except"
    /\ UNCHANGED <<uploaded_file, warning, mergeVars, tailorVars, fetchVars, sessionVars>>

\* lines 313-314
Warn ==
    /\ epc = "except"
    /\ warning' = "Could not fully parse LinkedIn export: " \o caught
    /\ epc' = "infer"
    /\ UNCHANGED <<uploaded_file, exported, caught, mergeVars, tailorVars, fetchVars, sessionVars>>

\* lines 317-320
InferSkills ==
    /\ epc = "infer"
    /\ InferenceApplies(exported) => exported.summary.type = "str"
    /\ exported' = IF InferenceApplies(exported)
                     THEN [exported EXCEPT !.skills = InferredSkills(exported.summary)]
                     ELSE exported
    /\ epc' = "done"
    /\ UNCHANGED <<uploaded_file, caught, warning, mergeVars, tailorVars, fetchVars, sessionVars>>

\* line 318: re.split raises TypeError on a summary that is not a str, and
\* nothing catches it
InferRaises ==
    /\ epc = "infer"
    /\ InferenceApplies(exported)
    /\ exported.summary.type # "str"
    /\ epc' = "raised"
    /\ UNCHANGED <<uploaded_file, exported, caught, warning, mergeVars, tailorVars, fetchVars, sessionVars>>

ExportInit ==
    /\ epc = "call"
    /\ uploaded_file \in Uploads
    /\ exported = EmptyParsed
    /\ caught = ""
    /\ warning = ""
    /\ MergeIdle
    /\ TailorIdle
    /\ FetchIdle
    /\ SessionIdle

ExportNext ==
    \/ OpenArchive \/ BadZipFile \/ ReadProfileJson \/ ReadCsvFiles \/ FindEmail
    \/ ReadDirect \/ Warn \/ InferSkills \/ InferRaises

ExportSpec == ExportInit /\ [][ExportNext]_vars

MergeInit ==
    /\ mpc = "call"
    /\ \E c \in FieldChoices :
          /\ ud \in UserDatas(c[1])
          /\ parsed \in ParsedProfiles(c[2])
    /\ args = [parsed |-> parsed, ud |-> ud]
    /\ TailorIdle
    /\ FetchIdle
    /\ ExportIdle
    /\ SessionIdle

Merge ==
    /\ mpc = "call"
    /\ ud' = merge_parsed_into_user(parsed, ud)
    /\ mpc' = "done"
    /\ UNCHANGED <<parsed, args, tailorVars, fetchVars, exportVars, sessionVars>>

MergeNext == Merge

MergeSpec == MergeInit /\ [][MergeNext]_vars

(***************************************************************************)
(* Claims about merge_parsed_into_user.                                    *)
(***************************************************************************)
(* The user's actions, step by step.                                       *)
(***************************************************************************)
MayAct == script = "waiting"
MayCount == MayAct /\ events < MaxEvents

\* lines 454-460: typing into a text input of step 1
TypeScalar ==
    /\ MayCount /\ current_step = 1
    /\ \E f \in {"name", "email"} :
          Becomes(UploadBlock(Counted([Now EXCEPT !.user_data[f] = Str("user " \o f)])))

\* lines 463-468: the radio; the uploader exists under its option only
ChooseImport ==
    /\ MayAct /\ current_step = 1
    /\ \E o \in ImportOptions \ {import_option} :
          Becomes(ByUser([Now EXCEPT !.import_option = o, !.uploaded = NoFile]))

\* lines 470-483
ImportFromUrl ==
    /\ MayCount /\ current_step = 1 /\ import_option = "url"
    /\ \E url \in SessionUrls, pg \in SessionPages :
          LET result == fetch_public_linkedin(url, pg)
          IN  Becomes([Counted(Now) EXCEPT
                 !.invoked = 1,
                 !.user_data = merge_parsed_into_user(result, @),
                 !.shown = IF HasError(result) THEN "Could not parse LinkedIn page"
                           ELSE "Imported (best-effort)",
                 !.script = "rerun"])

\* lines 485-492: a file is dropped on the uploader
UploadFile ==
    /\ MayCount /\ current_step = 1 /\ import_option = "upload" /\ uploaded = NoFile
    /\ \E f \in SessionUploads : Becomes(UploadBlock(Counted([Now EXCEPT !.uploaded = f])))

\* the user removes the file from the uploader, at any time
RemoveFile ==
    /\ current_step = 1 /\ import_option = "upload" /\ uploaded # NoFile
    /\ Becomes(ByUser([Now EXCEPT !.uploaded = NoFile,
                                  !.user_data = Render(@, 1)]))

\* lines 511-527
FetchOAuthProfile ==
    /\ MayCount /\ current_step = 1 /\ import_option = "oauth"
    /\ \E profile \in Profiles :
          IF OAuthRaises(user_data, profile)
            THEN Becomes([Counted(Now) EXCEPT !.invoked = 1,
                                              !.shown = "Failed to fetch profile"])
          ELSE IF ~Truthy(profile) THEN Becomes([Counted(Now) EXCEPT !.invoked = 1])
          ELSE Becomes([Counted(Now) EXCEPT
                  !.invoked = 1,
                  !.user_data = OAuthImport(@, profile),
                  !.shown = "LinkedIn profile imported",
                  !.script = "rerun"])

\* lines 529-531, 553-558, 589-594, 603-608: the Back and Next buttons; at
\* step 1 the button comes after the import block
Navigate ==
    /\ MayAct /\ current_step \in 1..4 /\ ~UploadPending(Now)
    /\ \E to \in {current_step - 1, current_step + 1} \cap 1..5 :
          Becomes([ByUser(Now) EXCEPT !.current_step = to, !.import_option = "manual",
                                      !.script = "rerun"])

\* line 536-537: typing the skills
TypeSkills ==
    /\ MayCount /\ current_step = 2
    /\ Becomes(Counted([Now EXCEPT !.user_data.skills = SubSeq(UserSkills, 1, 2)]))

\* lines 548-550
AddJob ==
    /\ MayCount /\ current_step = 2 /\ Len(user_data.experience) < MaxList
    /\ Becomes([Counted(Now) EXCEPT
          !.user_data.experience = Append(@, Exp("", "", "", "")),
          !.script = "rerun"])

\* lines 540-546: typing the fields of the first job
TypeJob ==
    /\ MayCount /\ current_step = 2 /\ Len(user_data.experience) > 0
    /\ Becomes(Counted([Now EXCEPT !.user_data.experience[1] = UserExperience[1]]))

\* lines 571-573
AddProject ==
    /\ MayCount /\ current_step = 3 /\ Len(user_data.projects) < MaxList
    /\ Becomes([Counted(Now) EXCEPT
          !.user_data.projects = Append(@, Proj("", "", "")),
          !.script = "rerun"])

\* lines 584-586
AddEducation ==
    /\ MayCount /\ current_step = 3 /\ Len(user_data.education) < MaxList
    /\ Becomes([Counted(Now) EXCEPT
          !.user_data.education = Append(@, Edu("", "", "")),
          !.script = "rerun"])

\* line 600
TypeJobDescription ==
    /\ MayCount /\ current_step = 4
    /\ Becomes(Counted([Now EXCEPT !.user_data.job_description = Str("user job_description")]))

\* lines 617-622
AutoTailor ==
    /\ MayCount /\ current_step = 5
    /\ \E o \in TailorOutcomes :
          IF TailorRaises(o.reply, o.out)
            THEN Becomes([Counted(Now) EXCEPT !.invoked = 1, !.shown = "TypeError",
                                              !.outcome = "tailoring failed"])
            ELSE LET result == tailor_resume_experience(PyList(user_data.experience),
                                                        o.reply, o.out)
                 IN  Becomes([Counted(Now) EXCEPT
                        !.invoked = 1,
                        !.user_data.tailored_experience = result,
                        !.shown = IF Truthy(result) THEN "Tailoring complete!" ELSE "",
                        !.outcome = IF TailorFailed(o) THEN "tailoring failed"
                                    ELSE "tailored"])

\* lines 625-642; the checkbox exists when there is tailored experience
DownloadResume ==
    /\ MayAct /\ current_step = 5 /\ DownloadShown(user_data)
    /\ \E use_tailored \in IF Truthy(user_data.tailored_experience) THEN BOOLEAN ELSE {FALSE} :
          Becomes([ByUser(Now) EXCEPT !.pdf = create_resume_pdf(user_data, use_tailored)])

\* lines 646-649
WriteCoverLetter ==
    /\ MayCount /\ current_step = 5 /\ WriteCoverShown(user_data)
    /\ \E o \in LetterOutcomes :
          Becomes([Counted(Now) EXCEPT
             !.invoked = 1,
             !.cl = generate_cover_letter(o.reply, o.out),
             !.outcome = IF ModelFailed(o) THEN "letter failed" ELSE "letter written"])

\* lines 656-658
StartOver ==
    /\ MayAct /\ current_step = 5 /\ StartOverShown(user_data, cl)
    /\ Becomes([session_state_clear(ByUser(Now)) EXCEPT !.outcome = "cleared"])

\* a run the script asked for with st.rerun / st.experimental_rerun
Rerun ==
    /\ script = "rerun"
    /\ UploadPending(Now) => invoked < MaxInvocations
    /\ Becomes(UploadBlock([Fresh(Now) EXCEPT !.user_data = Render(@, current_step)]))

\* lines 438-447
SessionInit ==
    /\ current_step = 1
    /\ user_data = InitialUserData
    /\ cl = NoLetter
    /\ import_option = "manual"
    /\ uploaded = NoFile
    /\ script = "waiting"
    /\ invoked = 0
    /\ events = 0
    /\ pdf = NoPdf
    /\ shown = ""
    /\ outcome = ""
    /\ MergeIdle
    /\ TailorIdle
    /\ FetchIdle
    /\ ExportIdle

SessionNext ==
    \/ TypeScalar \/ ChooseImport \/ ImportFromUrl \/ UploadFile \/ RemoveFile
    \/ FetchOAuthProfile \/ Navigate \/ TypeSkills \/ AddJob \/ TypeJob \/ AddProject
    \/ AddEducation \/ TypeJobDescription \/ AutoTailor \/ DownloadResume
    \/ WriteCoverLetter \/ StartOver \/ Rerun

SessionSpec == SessionInit /\ [][SessionNext]_vars

(***************************************************************************)
(* create_resume_pdf on its own: any Record, either value of the flag.     *)
(***************************************************************************)
TailoredValues ==
    {PyList(<<>>), PyList(<<PyDict("{A}")>>), PyList(<<PyDict("{A}"), PyDict("{B}")>>),
     PyList(<<PyInt(1)>>), PyDict("{A}"), PyList(SubSeq(UserTailored, 1, 1))}

PdfRecords ==
    {[u EXCEPT !.tailored_experience = t] :
        u \in UNION {UserDatas(S) : S \in {T \in SUBSET {"name", "summary", "skills",
                                                           "experience", "projects"} :
                                             Cardinality(T) <= MaxFilled}},
        t \in TailoredValues}

CallCreateResumePdf ==
    /\ script = "call"
    /\ \E use_tailored \in BOOLEAN :
          Becomes([Now EXCEPT !.pdf = create_resume_pdf(user_data, use_tailored),
                              !.script = "returned"])

PdfInit ==
    /\ current_step = 5
    /\ user_data \in PdfRecords
    /\ cl = NoLetter
    /\ import_option = "manual"
    /\ uploaded = NoFile
    /\ script = "call"
    /\ invoked = 0
    /\ events = 0
    /\ pdf = NoPdf
    /\ shown = ""
    /\ outcome = ""
    /\ MergeIdle
    /\ TailorIdle
    /\ FetchIdle
    /\ ExportIdle

PdfNext == CallCreateResumePdf

PdfSpec == PdfInit /\ [][PdfNext]_vars

(***************************************************************************)
\* a scalar is empty when it is the empty string or unset
IsEmpty(v) == v = Str("") \/ v = None

\* C1: after merge_parsed_into_user(p, r) a scalar field of r that was
\* non-empty is unchanged, and a scalar field holds p's value exactly when
\* p's value is non-empty and r's value was empty; otherwise it keeps r's.
C1_ScalarsNeverOverwritten ==
    mpc = "done" =>
        \A f \in ScalarFields :
            /\ ~IsEmpty(args.ud[f]) => ud[f] = args.ud[f]
            /\ IF ~IsEmpty(args.parsed[f]) /\ IsEmpty(args.ud[f])
                  THEN ud[f] = args.parsed[f]
                  ELSE ud[f] = args.ud[f]

C1_Witness ==
    /\ mpc = "done"
    /\ \E f \in ScalarFields :
          ~IsEmpty(args.ud[f]) /\ ~IsEmpty(args.parsed[f]) /\ args.parsed[f] # args.ud[f]
    /\ \E g \in ScalarFields :
          IsEmpty(args.ud[g]) /\ ~IsEmpty(args.parsed[g]) /\ ud[g] = args.parsed[g]

\* C2: after merge_parsed_into_user(p, r) each of skills, experience and
\* education is r's old list (when that was non-empty or p's is empty) or the
\* whole of p's list (when r's was empty and p's is not): never a mixture.
C2_ListsAllOrNothing ==
    mpc = "done" =>
        \A f \in MergedListFields :
            IF Len(args.ud[f]) = 0 /\ Len(args.parsed[f]) > 0
              THEN ud[f] = args.parsed[f]
              ELSE ud[f] = args.ud[f]

C2_Witness ==
    /\ mpc = "done"
    /\ \E f \in MergedListFields :
          Len(args.ud[f]) > 0 /\ Len(args.parsed[f]) > 0 /\ args.parsed[f] # args.ud[f]
    /\ \E g \in MergedListFields :
          Len(args.ud[g]) = 0 /\ Len(args.parsed[g]) > 1 /\ ud[g] = args.parsed[g]

\* C3: merge_parsed_into_user(p, r) leaves projects, job_description and
\* tailored_experience of r as they were, adds and removes no key of r, and
\* leaves p as it was.
C3_MergeFrame ==
    mpc = "done" =>
        /\ \A f \in UserFields \ (ScalarFields \cup MergedListFields) : ud[f] = args.ud[f]
        /\ DOMAIN ud = DOMAIN args.ud
        /\ parsed = args.parsed

C3_Witness ==
    /\ mpc = "done"
    /\ Len(parsed.projects) > 0
    /\ Len(ud.projects) = 0
    /\ ud # args.ud

(***************************************************************************)
(* Claims about tailor_resume_experience and query_ollama.                 *)
(***************************************************************************)
\* a "[" somewhere before a "]"
BracketPair(t) == \E i, j \in 1..Len(t) : i < j /\ t[i] = "[" /\ t[j] = "]"

\* from the first "[" to the last "]"
BracketSlice(t) ==
    LET i == CHOOSE a \in 1..Len(t) : t[a] = "[" /\ \A b \in 1..(a - 1) : t[b] # "["
        j == CHOOSE a \in 1..Len(t) : t[a] = "]" /\ \A b \in (a + 1)..Len(t) : t[b] # "]"
    IN  SubSeq(t, i, j)

IsValidJson(t) == json_loads(t) # JSONDecodeError

\* C4 as stated: when the model output is the textual form of a JSON array
\* of objects L, fenced or not, with any prose before and after it, the
\* extraction step returns L.
C4_AnyProse ==
    (tpc = "done" /\ model_output.form = "wrapped") => tailored = model_output.list

\* C4, amended: when the model output is the textual form of a JSON array of
\* objects L, fenced or not, preceded by prose that holds no "[" and followed
\* by prose that holds no "]", the extraction step returns L.
C4_ProseWithoutBrackets ==
    (/\ tpc = "done"
     /\ model_output.form = "wrapped"
     /\ "[" \notin Range(model_output.pre)
     /\ "]" \notin Range(model_output.post))
        => tailored = model_output.list

C4_Witness ==
    /\ tpc = "done"
    /\ model_output.form = "wrapped"
    /\ model_output.fenced
    /\ "x" \in Range(model_output.pre) /\ "[" \notin Range(model_output.pre)
    /\ "x" \in Range(model_output.post) /\ "]" \notin Range(model_output.post)
    /\ Len(model_output.list.items) >= 2
    /\ tailored = model_output.list

\* C5: when the model output holds no bracket pair and its fence-stripped
\* text is not valid JSON, or holds a bracketed slice that does not decode,
\* the extraction step returns the caller's list and shows the failure with
\* the raw text.
C5_FallbackOnDecodeFailure ==
    tpc = "done" =>
        LET t == response_text.toks
        IN  (\/ ~BracketPair(t) /\ ~IsValidJson(CleanText(t))
             \/ BracketPair(t) /\ ~IsValidJson(BracketSlice(t)))
                => /\ tailored = experience_list
                   /\ \E i \in 1..Len(st_messages) : st_messages[i][1] = "error"
                   /\ \E i \in 1..Len(st_messages) : st_messages[i] = <<"code", t>>

C5_Witness ==
    /\ tpc = "done"
    /\ ~BracketPair(response_text.toks)
    /\ "'''" \in Range(response_text.toks)
    /\ ~IsValidJson(CleanText(response_text.toks))
    /\ Len(experience_list.items) = 2
    /\ tailored = experience_list
    /\ Len(st_messages) > 0

\* C6 as stated: the extraction step returns a decoded JSON array or the
\* caller's list, never a decoded value of another type.
C6_ResultIsAList ==
    tpc = "done" => tailored.type = "list"

\* C7 as stated: query_ollama returns text in every case: the fixed
\* message on a connection error, "Error: " and the error's text on any other
\* failure, the reply's response field on success, "" when it is absent.
C7_QueryAlwaysReturnsText ==
    tpc \in {"queried", "done", "raised"} =>
        /\ response_text.type = "str"
        /\ reply.kind = "ConnectionError" => response_text = CouldNotConnect
        /\ (reply.kind \in {"ReadTimeout", "status"} \/ reply.body \in {"not_json", "json_list"})
              => response_text = Text(<<"Error: ", ExceptionText(reply)>>)
        /\ reply.body = "response" => response_text = Text(model_output.text)
        /\ reply.body = "no_response" => response_text = Text(<<>>)

(***************************************************************************)
(* C8.  Neither normalizer raises to its caller: an internal failure (an   *)
(* archive or file that does not decode, a parser exception, a summary     *)
(* that is not text, a fetch that is not answered with 200) is captured as *)
(* an "_error" field of the result returned, and the result keeps every    *)
(* field, with what had been recovered before the failure.                 *)
(***************************************************************************)
FetchFailed ==
    \/ linkedin_url \notin WellFormedUrls
    \/ page.outcome # "response"
    \/ page.status # "200"
    \/ page.parser # "lxml"

C8_FailuresBecomeErrorFields ==
    /\ epc # "raised"
    /\ epc = "done" /\ caught # "" => HasError(exported)
    /\ epc = "done" => DOMAIN EmptyParsed \subseteq DOMAIN exported
    /\ fpc = "done" /\ FetchFailed => HasError(fetched)
    /\ fpc = "done" => DOMAIN EmptyFetched \subseteq DOMAIN fetched

(***************************************************************************)
(* C9.  fetch_public_linkedin validates the URL before any network access: *)
(* for a URL that is not well-formed no GET is ever issued and the result  *)
(* is the empty defaults with the error "Invalid URL"; for a well-formed   *)
(* URL exactly one GET is issued, and a status other than 200 gives an     *)
(* "_error" that contains the status code.                                 *)
(***************************************************************************)
C9_ValidateBeforeFetch ==
    /\ http_gets <= 1
    /\ linkedin_url \notin WellFormedUrls => http_gets = 0
    /\ fpc = "done" /\ linkedin_url \notin WellFormedUrls =>
          fetched = WithError(EmptyFetched, <<"Invalid URL">>)
    /\ fpc = "done" /\ linkedin_url \in WellFormedUrls => http_gets = 1
    /\ fpc = "done" /\ linkedin_url \in WellFormedUrls
          /\ page.outcome = "response" /\ page.status # "200" =>
          /\ HasError(fetched)
          /\ page.status \in Range(fetched["_error"].toks)
          /\ \A f \in DOMAIN EmptyFetched : fetched[f] = EmptyFetched[f]

\* a malformed URL was rejected, on a server that would have answered 404
C9_Witness ==
    /\ fpc = "done"
    /\ linkedin_url \in MalformedUrls
    /\ page.status = "404"
    /\ http_gets = 0
    /\ HasError(fetched)

(***************************************************************************)
(* C10.  Among the synonyms of a column the first that exists wins: when   *)
(* the contact table of an archive has an "Email Address" column and an    *)
(* "Email" column with different values in its first row, the email        *)
(* returned is the value of "Email Address".                               *)
(***************************************************************************)
\* the archive holds one file, a contact table with both columns filled in
BothEmailColumns ==
    /\ IsZipName
    /\ uploaded_file.body.kind = "zip"
    /\ Len(uploaded_file.body.members) = 1
    /\ LET m == uploaded_file.body.members[1]
       IN  /\ EndsWith(m.name, ".csv")
           /\ m.data.form = "csv"
           /\ {"Email Address", "Email"} \subseteq Range(m.data.value.columns)
           /\ Len(m.data.value.rows) > 0
           /\ LET row == read_csv(m.data.value).rows[1]
              IN  /\ row["Email Address"].type = "str"
                  /\ row["Email"].type = "str"
                  /\ row["Email Address"] # row["Email"]

C10_FirstEmailColumnWins ==
    epc = "done" /\ BothEmailColumns =>
        exported.email = read_csv(uploaded_file.body.members[1].data.value).rows[1]["Email Address"]

(***************************************************************************)
(* C11.  For every row of a positions table the duration of the experience *)
(* entry is "{start} - {end}" with the separator trimmed at both ends:     *)
(* "start - end" when both cells are filled in, the start alone when the   *)
(* end is empty, the end alone when the start is empty, and the empty      *)
(* string when both are empty.                                             *)
(***************************************************************************)
\* the archive holds one file, a table of positions with both date columns
OnlyPositionsTable ==
    /\ IsZipName
    /\ uploaded_file.body.kind = "zip"
    /\ Len(uploaded_file.body.members) = 1
    /\ LET m == uploaded_file.body.members[1]
       IN  /\ EndsWith(m.name, ".csv")
           /\ NameHas(m.name, "position")
           /\ m.data.form = "csv"
           /\ m.data.value.columns =
                 <<"Title", "Company", "Start Date", "End Date", "Description">>

\* the duration the claim describes, from the two cells as they are written
DurationOfCells(start, end) ==
    IF start # "" /\ end # "" THEN Text(<<start, " ", "-", " ", end>>)
    ELSE IF start # "" THEN Text(<<start>>)
    ELSE IF end # "" THEN Text(<<end>>)
    ELSE Text(<<>>)

C11_DurationTrimmed ==
    epc = "done" /\ OnlyPositionsTable =>
        LET rows == uploaded_file.body.members[1].data.value.rows
        IN  /\ Len(exported.experience) = Len(rows)
            /\ \A i \in 1..Len(rows) :
                  exported.experience[i].duration = DurationOfCells(rows[i][3], rows[i][4])

(***************************************************************************)
(* C12.  Skill inference: when a normalizer recovered no skills but did    *)
(* recover a summary, the skills returned are the fragments of the summary *)
(* between commas, semicolons and newlines, each trimmed, keeping the      *)
(* non-empty fragments shorter than 40 characters in their order, and at   *)
(* most the first 12 of them.                                              *)
(***************************************************************************)
ClaimedSkills(summary) ==
    LET frags == Split(summary.toks)
        kept == SelectSeq([i \in 1..Len(frags) |-> Strip(frags[i])],
                          LAMBDA frag : frag # <<>> /\ CharLen(frag) < 40)
    IN  [i \in 1..Min({Len(kept), 12}) |-> Text(kept[i])]

C12_SkillsInferredFromSummary ==
    /\ epc = "done" /\ exported.summary.type = "str" /\ Truthy(exported.summary) =>
          exported.skills = ClaimedSkills(exported.summary)
    /\ fpc = "done" /\ ~HasError(fetched) /\ Truthy(fetched.summary)
          /\ ClaimedSkills(fetched.summary) # <<>> =>
          fetched.skills # <<>>

(***************************************************************************)
(* C13.  For an archive whose only member is a table with "education" in   *)
(* its name, every row becomes one education entry, in the order of the    *)
(* rows, with the degree, the institution and the year as text, and every  *)
(* other field of the dict returned keeps its empty default.               *)
(***************************************************************************)
\* the archive holds one file, Degree / School / End Date
OnlyEducationTable ==
    /\ IsZipName
    /\ uploaded_file.body.kind = "zip"
    /\ Len(uploaded_file.body.members) = 1
    /\ LET m == uploaded_file.body.members[1]
       IN  /\ EndsWith(m.name, ".csv")
           /\ NameHas(m.name, "education")
           /\ m.data.form = "csv"
           /\ m.data.value.columns = <<"Degree", "School", "End Date">>

C13_EducationRowsAsText ==
    epc = "done" /\ OnlyEducationTable =>
        LET rows == uploaded_file.body.members[1].data.value.rows
        IN  /\ exported.education =
                  [i \in 1..Len(rows) |->
                      [degree |-> Str(rows[i][1]), institution |-> Str(rows[i][2]),
                       year |-> Str(rows[i][3])]]
            /\ \A f \in DOMAIN EmptyParsed \ {"education"} : exported[f] = EmptyParsed[f]

(***************************************************************************)
(* C14.  A failed attempt preserves the previous state: when an attempt to *)
(* tailor the experience fails (model unreachable, upstream error, output  *)
(* that does not decode) every field of the Record, a tailored_experience  *)
(* of an earlier attempt included, is what it was before the attempt, and  *)
(* tailoring is not reported as applied; when an attempt to write the      *)
(* cover letter fails, a cover letter written before is not replaced.      *)
(***************************************************************************)
C14_FailedAttemptKeepsState ==
    [][ /\ outcome' = "tailoring failed" =>
              user_data' = user_data /\ shown' # "Tailoring complete!"
        /\ outcome' = "letter failed" /\ cl # NoLetter => cl' = cl ]_vars

(***************************************************************************)
(* C15.  In every state of the session each scalar field of the Record     *)
(* (name, email, phone, current_role, summary) is a text string, the empty *)
(* string meaning unset: no edit, merge or import stores None or any other *)
(* value that is not text in one of them.                                  *)
(***************************************************************************)
C15_ScalarsAreText ==
    \A f \in ScalarFields : user_data[f].type = "str"

(***************************************************************************)
(* C16.  No operation is retried automatically: an action of the user      *)
(* (a click on an import or generate control, the upload of one file)      *)
(* causes at most one invocation of the operation (one model request, one  *)
(* page fetch, one parse-and-merge of the file), and a further invocation  *)
(* needs another action of the user.                                       *)
(***************************************************************************)
C16_OneInvocationPerAction ==
    invoked <= 1

(***************************************************************************)
(* C17.  create_resume_pdf renders the experience section from             *)
(* tailored_experience exactly when use_tailored is set and                *)
(* tailored_experience is not empty, and from the original experience list *)
(* in every other case; it only reads the Record: every field is unchanged *)
(* after the call, also when the rendering fails and None is returned.     *)
(***************************************************************************)
C17_PdfReadsTheRightList ==
    /\ [](pdf.type = "BytesIO" =>
            pdf.experience =
                IF pdf.use_tailored /\ user_data.tailored_experience # PyList(<<>>)
                  THEN user_data.tailored_experience
                  ELSE PyList(user_data.experience))
    /\ [][pdf' # NoPdf /\ pdf' # pdf => user_data' = user_data]_vars

\* a document was rendered from a tailored list that differs from the original
C17_Witness ==
    /\ script = "returned"
    /\ pdf.type = "BytesIO"
    /\ pdf.use_tailored
    /\ user_data.experience # <<>>
    /\ pdf.experience = user_data.tailored_experience
    /\ pdf.experience # PyList(user_data.experience)

(***************************************************************************)
(* C18.  Start Over discards the whole session state, whatever the Record  *)
(* holds and whether or not there is tailored experience or a cover        *)
(* letter: the next state is the initial one, with current_step 1, every   *)
(* field of the Record at its empty default, and no tailored experience or *)
(* cover letter left.                                                      *)
(***************************************************************************)
C18_StartOverResets ==
    [][StartOver =>
          /\ current_step' = 1
          /\ user_data' = InitialUserData
          /\ cl' = NoLetter
          /\ pdf' = NoPdf
          /\ uploaded' = NoFile
          /\ import_option' = "manual"]_vars

\* the session was cleared after the user had generated something twice
C18_Witness ==
    /\ outcome = "cleared"
    /\ events >= 2
    /\ current_step = 1
    /\ user_data = InitialUserData
    /\ cl = NoLetter

====
